---- MODULE Spec2Model ----
(***************************************************************************)
(* Verification model of bersen66/software_design_course.                  *)
(*                                                                         *)
(*  - task1: the command-line interpreter designed in task1/solution.md    *)
(*    (lexer FSM, recursive parser, executor of simple commands and        *)
(*    pipelines).                                                          *)
(*  - chat: the gRPC chat server (Send / Notify), its client and the      *)
(*    model of its terminal interface.                                     *)
(*                                                                         *)
(* The specifications SpecLex, SpecParse, SpecBuild, SpecExec, SpecExpand, *)
(* SpecChat, SpecFlood, SpecClient, SpecClientFair and SpecTui share the   *)
(* module. Each one leaves the variables of the other parts untouched.     *)
(***************************************************************************)
EXTENDS Integers, Sequences, FiniteSets, TLC

VARIABLES
    \* ---- lexer (LexingFSM) ----
    input,      \* the line being tokenized, a sequence of characters
    pos,        \* index of the next character to read
    state,      \* FSM state
    depth,      \* nesting depth of the substitution being read
    buf,        \* characters buffered for the current literal / substitution
    parts,      \* WordParts of the word being built
    tokens,     \* tokens emitted so far
    out,        \* result of tokenize: [status, tokens], status "running" until the end
    \* ---- executor (Cmd-executor) ----
    env,             \* self.env, the ambient Environment Store
    ast,             \* AST of the line being executed
    xpc,             \* position of the executor in the execution diagram
    idx,             \* LoopPipeline: index of the next stage
    local_env,       \* LoopPipeline: the stage's clone of self.env
    previous_output, \* pipeline: output captured from the last stage
    last_exit,       \* pipeline: exit code stored from the last stage
    final_stdout,    \* bytes the line wrote to the interpreter's stdout
    exit_code,       \* exit code returned for the last executed line
    obs,             \* observations of the line's run (history, not program state)
    \* ---- chat server ----
    hasDb,      \* s.db != nil
    db,         \* rows of table messages, in insertion order (row i has id i)
    rooms,      \* s.rooms
    subs,       \* s.subs: room -> channels registered for it
    chan,       \* buffered contents of each subscriber channel
    clock,      \* time.Now()
    snd,        \* the Send call of each caller
    ntf,        \* the Notify call of each subscriber
    stream,     \* messages sent on each subscriber's stream
    calls,      \* number of Send calls begun
    log,        \* messages sent and deliveries dropped by Send (history)
    \* ---- parser (AstBuilder) ----
    toks,       \* the tokens given to construct_ast
    tpos,       \* index of the next token
    ppc,        \* position of the parser in its flowchart
    command,    \* the Command node being built by parse_command
    commands,   \* parse_pipeline: the commands parsed so far
    presult,    \* result of parse: [status, ast]
    \* ---- chat client ----
    client,     \* the *Client the methods are called on
    csend,      \* the call of Client.Send and what it returned
    cclose,     \* the call of Client.Close and what it returned
    csub,       \* the call of Client.Subscribe and what it returned
    gor,        \* the forwarding goroutine of Subscribe
    outCh,      \* the channel out: buffered messages, number of close(out)
    ctxSub,     \* the context of the subscription
    net,        \* RPCs issued, goroutines started, messages received and read
    \* ---- expander ----
    eword,      \* the WordParts of the word being expanded
    eview,      \* the environment view the word is expanded in
    epos,       \* number of parts rendered so far
    etext,      \* the text rendered so far
    elast,      \* rendering of the last part (history, not program state)
    ecap,       \* output captured by the last command substitution, or "none"
    estat,      \* "expanding", "ok" or "ExpansionError"
    \* ---- chat TUI ----
    tinput,     \* m.input: the text of the input line
    tmessages,  \* m.messages
    tconf,      \* m.room, m.user and whether m.send is set
    tgo,        \* goroutines started by Enter that have not run yet
    tsent,      \* the calls of m.send made so far (history)
    tlast       \* number and kind of the last message Update handled

lexVars == <<input, pos, state, depth, buf, parts, tokens, out>>

execVars ==
    <<env, ast, xpc, idx, local_env, previous_output, last_exit,
      final_stdout, exit_code, obs>>

chatVars ==
    <<hasDb, db, rooms, subs, chan, clock, snd, ntf, stream, calls, log>>

parseVars == <<toks, tpos, ppc, command, commands, presult>>

clientVars == <<client, csend, cclose, csub, gor, outCh, ctxSub, net>>

expandVars == <<eword, eview, epos, etext, elast, ecap, estat>>

tuiVars == <<tinput, tmessages, tconf, tgo, tsent, tlast>>

vars ==
    <<lexVars, execVars, chatVars, parseVars, clientVars, expandVars, tuiVars>>

nonLexVars ==
    <<execVars, chatVars, parseVars, clientVars, expandVars, tuiVars>>

nonExecVars ==
    <<lexVars, chatVars, parseVars, clientVars, expandVars, tuiVars>>

nonChatVars ==
    <<lexVars, execVars, parseVars, clientVars, expandVars, tuiVars>>

nonParseVars ==
    <<lexVars, execVars, chatVars, clientVars, expandVars, tuiVars>>

nonClientVars ==
    <<lexVars, execVars, chatVars, parseVars, expandVars, tuiVars>>

nonExpandVars ==
    <<lexVars, execVars, chatVars, parseVars, clientVars, tuiVars>>

nonTuiVars ==
    <<lexVars, execVars, chatVars, parseVars, clientVars, expandVars>>

(***************************************************************************)
(* Bounds                                                                  *)
(***************************************************************************)
MaxLen == 3         \* longest line enumerated over the full alphabet
MaxNestLen == 5     \* longest line enumerated over the nesting alphabet
MaxAssign == 2      \* most assignments in front of a simple command
MaxStages == 3      \* most commands of a pipeline
MaxCalls == 3       \* most calls (Send or Notify) begun in one run
MaxClock == 1       \* latest reading of the clock
MaxParts == 2       \* most WordParts of an expanded word
MaxOut == 3         \* longest output captured from a command substitution
MaxToks == 4        \* longest token sequence enumerated over all tokens
MaxPipeToks == 6    \* longest token sequence of words and pipe operators
MaxRecv == 33       \* most messages the subscription stream carries
MaxInput == 3       \* most characters typed into the input line
MaxEvents == 5      \* most messages handled by Update in one run

(***************************************************************************)
(* Program constants                                                       *)
(***************************************************************************)
ChanCap == 16       \* make(chan *pb.ChatMessage, 16)
OutCap == 32        \* make(chan *pb.ChatMessage, 32)

(***************************************************************************)
(* Characters                                                              *)
(***************************************************************************)
SQ == "'"
DQ == "\""

Letters ==
    {"a","b","c","d","e","f","g","h","i","j","k","l","m",
     "n","o","p","q","r","s","t","u","v","w","x","y","z"}

Digits == {"0","1","2","3","4","5","6","7","8","9"}

IsSpace(c) == c \in {" ", "\t"}

IsOperatorChar(c) == c \in {"|", "=", "/", "<", ">"}

IsIdentStart(c) == c \in Letters \cup {"_"}

IsIdentChar(c) == c \in Letters \cup Digits \cup {"_"}

(***************************************************************************)
(* Tokens and word parts                                                   *)
(***************************************************************************)
Literal(t) == [kind |-> "Literal", text |-> t]

CmdSubst(t) == [kind |-> "CmdSubst", text |-> t]

ParamSubst(t) == [kind |-> "ParamSubst", text |-> t]

Word(ps) == [type |-> "Word", parts |-> ps]

OpToken(c) ==
    [type |-> CASE c = "|" -> "PipeOp"
                [] c = "=" -> "Equal"
                [] c = "/" -> "Slash"
                [] c = "<" -> "RedirectLeft"
                [] c = ">" -> "RedirectRight",
     parts |-> <<>>]

SeqsUpTo(S, n) == UNION {[1..k -> S] : k \in 0..n}

(***************************************************************************)
(* Environment store, AST and commands of the executor                     *)
(***************************************************************************)
Names == {"A", "B"}

Values == {"21", "7"}

Unset == "<unset>"

\* Commands built into the interpreter; every other name is looked up in PATH.
Builtins == {"pwd", "cd", "exit"}

\* The external commands found on the configured path list; one of them has
\* the name of a built-in.
OnPath == {"cat", "pwd"}

\* argv[0] of the commands that are run: one built-in, one external, and one
\* name that is neither built in nor found on the path.
Programs == {"pwd", "cat", "nope"}

\* What a command may write to its standard output, and exit with.
Outputs == {<<>>, <<"x">>}

ExitCodes == {0, 1}

\* The fixed exit code of a line rejected by the lexer or the parser.
LineErrorCode == 2

\* The fixed exit code of a command name that resolves to nothing.
CommandNotFound == 127

\* The exit code of an external command that could not be spawned.
SpawnFailed == 126

Assignment(n, v) == [name |-> n, value |-> v]

Command(as, argv) == [assignments |-> as, argv |-> argv]

NoAst == [node |-> "None", cmds |-> <<>>]

AllAssignments == {Assignment(n, v) : n \in Names, v \in Values}

SimpleCommands ==
    {Command(as, argv) :
        as \in SeqsUpTo(AllAssignments, MaxAssign),
        argv \in {<<>>} \cup {<<p>> : p \in Programs}}

StageCommands ==
    {Command(as, <<p>>) :
        as \in {<<>>, <<Assignment("A", "21")>>},
        p \in Programs}

\* The ASTs the parser hands to the executor: a bare Command, or a Pipeline
\* of at least two commands.
Lines ==
    {[node |-> "Command", cmds |-> <<c>>] : c \in SimpleCommands}
        \cup {[node |-> "Pipeline", cmds |-> cs] :
                 cs \in UNION {[1..n -> StageCommands] : n \in 2..MaxStages}}

NoObs ==
    [env_before |-> [n \in Names |-> Unset],
     ran |-> 0,
     stage_cmd |-> Command(<<>>, <<>>),
     cmd_env |-> [n \in Names |-> Unset],
     stdin_seen |-> <<>>,
     stdout_prev |-> <<>>,
     stdout_last |-> <<>>,
     stage_exit |-> 0,
     earlier_failed |-> FALSE,
     failure |-> "none",
     via |-> "none",
     rejected |-> "none"]

(***************************************************************************)
(* Chat: requests, messages and call records                               *)
(***************************************************************************)
Rooms == {"r1", "r2"}

Procs == {"p1", "p2"}       \* concurrent callers of Send

Subs == {"s1", "s2"}        \* Notify calls, each with its own channel

Nil == [nil |-> TRUE]       \* a nil request

\* Message ids are decimal strings of the row id; they are kept as the
\* number, and 0 stands for the empty string.
NoId == 0

NoSince == -1               \* req.Since == nil

SendRequest(room, sender, text) ==
    [room |-> room, sender |-> sender, text |-> text]

SubscribeRequest(room, since_id, since) ==
    [room |-> room, since_id |-> since_id, since |-> since]

SendRequests ==
    {Nil, SendRequest("", "bob", "hi"), SendRequest("r1", "bob", "hi"),
     SendRequest("r1", "", "hi"), SendRequest("r2", "bob", "hi")}

SubscribeRequests ==
    {Nil, SubscribeRequest("", NoId, NoSince),
     SubscribeRequest("r1", NoId, NoSince), SubscribeRequest("r1", 1, NoSince),
     SubscribeRequest("r1", NoId, 0), SubscribeRequest("r2", NoId, NoSince)}

\* A *pb.ChatMessage; n identifies the Send call it comes from (history).
ChatMessage(n, id, room, sender, text, ts) ==
    [n |-> n, id |-> id, room |-> room, sender |-> sender, text |-> text,
     ts |-> ts]

NoMessage == ChatMessage(0, NoId, "", "", "", 0)

NoResponse == [ok |-> FALSE, error |-> "", err |-> "", id |-> NoId, ts |-> -1]

IdleSend ==
    [pc |-> "idle", req |-> Nil, msg |-> NoMessage, targets |-> <<>>,
     resp |-> NoResponse]

\* earlier (history): the messages whose Send had returned Ok for the room
\* when this Notify was called.
IdleNotify ==
    [pc |-> "idle", req |-> Nil, past |-> <<>>, k |-> 1, err |-> "",
     earlier |-> {}, mark |-> 0]

\* History: sent, the messages whose Send returned Ok; dropped, the pairs
\* <<n, ch>> of a message and a channel that the broadcast loop skipped.
NoLog == [sent |-> {}, dropped |-> {}]

\* NewServer: rooms is a map from room to a list of messages, with no key.
NoRooms == [r \in {} |-> <<>>]

\* NewServer: subs is a map from room to the list of its channels, with
\* no key at first.
NoSubs == [r \in {} |-> <<>>]

\* s.subs[room]: the list stored under the key, nil when there is none.
Get(sb, room) == IF room \in DOMAIN sb THEN sb[room] ELSE <<>>

\* s.subs[room] = list
Put(sb, room, list) ==
    [r \in DOMAIN sb \cup {room} |-> IF r = room THEN list ELSE sb[r]]

\* delete(s.subs, room)
Delete(sb, room) == [r \in DOMAIN sb \ {room} |-> sb[r]]

\* Notify, lines 142-144: the channel is appended to the room's list.
Register(sb, room, ch) == Put(sb, room, Append(Get(sb, room), ch))

\* The handler goroutines and the client streams are interchangeable: a call
\* runs on the first one that is free.
Handlers == <<"p1", "p2">>

Streams == <<"s1", "s2">>

FirstFree(order, x, free) ==
    \A i \in 1..Len(order) :
        order[i] = x => \A j \in 1..(i - 1) : ~free[order[j]]

(***************************************************************************)
(* States of the parts a specification does not exercise                   *)
(***************************************************************************)
LexIdle ==
    /\ input = <<>>
    /\ pos = 1
    /\ state = "Start"
    /\ depth = 0
    /\ buf = <<>>
    /\ parts = <<>>
    /\ tokens = <<>>
    /\ out = [status |-> "running", tokens |-> <<>>]

ExecIdle ==
    /\ env = [n \in Names |-> Unset]
    /\ ast = NoAst
    /\ xpc = "Prompt"
    /\ idx = 0
    /\ local_env = [n \in Names |-> Unset]
    /\ previous_output = <<>>
    /\ last_exit = 0
    /\ final_stdout = <<>>
    /\ exit_code = 0
    /\ obs = NoObs

\* A command node with nothing in it yet.
EmptyCommand == [argv |-> <<>>, assignments |-> <<>>, redirects |-> <<>>]

NoResult == [status |-> "running", ast |-> NoAst]

ParseIdle ==
    /\ toks = <<>>
    /\ tpos = 1
    /\ ppc = "construct_ast"
    /\ command = EmptyCommand
    /\ commands = <<>>
    /\ presult = NoResult

\* A method call that has not been made.
NotCalled == [pc |-> "idle"]

NoGoroutine == [pc |-> "none", m |-> 0]

NewOut == [buf |-> <<>>, closed |-> 0]

NoTraffic ==
    [rpcs |-> 0, started |-> 0, recvd |-> 0, taken |-> 0, ended |-> FALSE]

ClientIdle ==
    /\ client = [nil |-> TRUE, conn |-> FALSE, cc |-> FALSE]
    /\ csend = NotCalled
    /\ cclose = NotCalled
    /\ csub = NotCalled
    /\ gor = NoGoroutine
    /\ outCh = NewOut
    /\ ctxSub = "none"
    /\ net = NoTraffic

NoCapture == [ran |-> FALSE, spawned |-> FALSE, out |-> <<>>]

ExpandIdle ==
    /\ eword = <<>>
    /\ eview = [n \in Names |-> Unset]
    /\ epos = 0
    /\ etext = <<>>
    /\ elast = <<>>
    /\ ecap = NoCapture
    /\ estat = "ok"

\* No message handled yet.
NoEvent == [n |-> 0, kind |-> "none"]

\* tui.New(): an empty input line, no messages, no room, user or sender.
NewModel == [room |-> "", user |-> "", send |-> FALSE]

TuiIdle ==
    /\ tinput = <<>>
    /\ tmessages = <<>>
    /\ tconf = NewModel
    /\ tgo = {}
    /\ tsent = <<>>
    /\ tlast = NoEvent

ChatIdle ==
    /\ hasDb = TRUE
    /\ db = <<>>
    /\ rooms = NoRooms
    /\ subs = NoSubs
    /\ chan = [c \in Subs |-> <<>>]
    /\ clock = 0
    /\ snd = [p \in Procs |-> IdleSend]
    /\ ntf = [c \in Subs |-> IdleNotify]
    /\ stream = [c \in Subs |-> <<>>]
    /\ calls = 0
    /\ log = NoLog

(***************************************************************************)
(* Lexer: LexingFSM (task1/solution.md, "Граф переходов")                  *)
(***************************************************************************)
LexStates ==
    {"Start", "ReadingWord", "ReadingSingleQuote", "ReadingDoubleQuote",
     "ReadingCmdSubst", "ReadingParamSubst"}

cur == input[pos]

nxt == IF pos < Len(input) THEN input[pos + 1] ELSE ""

\* The buffered literal text becomes a Literal part of the word, if any.
FlushBuf(ps, b) == IF b = <<>> THEN ps ELSE Append(ps, Literal(b))

\* What ends the fragment that a bare `$` starts: a separator, a quote, or
\* the `$` of the next fragment.
IsDelimiter(c) == IsSpace(c) \/ IsOperatorChar(c) \/ c \in {SQ, DQ, "$"}

\* Length of the fragment of the line starting at i.
RECURSIVE FragmentRun(_, _)
FragmentRun(line, i) ==
    IF i <= Len(line) /\ ~IsDelimiter(line[i])
    THEN 1 + FragmentRun(line, i + 1)
    ELSE 0

\* The format of a variable name.
IsName(t) ==
    /\ t # <<>>
    /\ IsIdentStart(t[1])
    /\ \A k \in 1..Len(t) : IsIdentChar(t[k])

\* `$(` : enter ReadingCmdSubst with depth = 1.
EnterCmdSubst ==
    /\ cur = "$" /\ nxt = "("
    /\ parts' = FlushBuf(parts, buf)
    /\ buf' = <<>>
    /\ state' = "ReadingCmdSubst"
    /\ depth' = 1
    /\ pos' = pos + 2
    /\ UNCHANGED <<input, tokens, out>>

\* `${` : enter ReadingParamSubst with depth = 1.
EnterParamSubst ==
    /\ cur = "$" /\ nxt = "{"
    /\ parts' = FlushBuf(parts, buf)
    /\ buf' = <<>>
    /\ state' = "ReadingParamSubst"
    /\ depth' = 1
    /\ pos' = pos + 2
    /\ UNCHANGED <<input, tokens, out>>

\* `$var` : a bare `$` starts a fragment that runs up to the next quote or
\* separator; the finished fragment is a ParamSubst part when it has the
\* format of a name, and ordinary literal text otherwise.
SimpleVar ==
    /\ cur = "$" /\ nxt \notin {"(", "{"}
    /\ LET n == FragmentRun(input, pos + 1)
           fragment == SubSeq(input, pos + 1, pos + n)
       IN /\ IF IsName(fragment)
             THEN /\ parts' = Append(FlushBuf(parts, buf), ParamSubst(fragment))
                  /\ buf' = <<>>
             ELSE /\ buf' = (buf \o <<"$">>) \o fragment
                  /\ UNCHANGED parts
          /\ pos' = pos + 1 + n
    /\ state' = "ReadingWord"
    /\ UNCHANGED <<input, depth, tokens, out>>

\* An ordinary character is buffered as literal text of the word.
LiteralChar(next) ==
    /\ buf' = Append(buf, cur)
    /\ state' = next
    /\ pos' = pos + 1
    /\ UNCHANGED <<input, depth, parts, tokens, out>>

\* A quote character met in Start or ReadingWord, as a literal.
OpenSingleQuoteAsLiteral ==
    /\ cur = SQ
    /\ LiteralChar("ReadingWord")

\* `'` in Start or ReadingWord enters ReadingSingleQuote.
OpenSingleQuote ==
    /\ cur = SQ
    /\ state' = "ReadingSingleQuote"
    /\ pos' = pos + 1
    /\ UNCHANGED <<input, depth, buf, parts, tokens, out>>

\* `"` in Start or ReadingWord enters ReadingDoubleQuote.
OpenDoubleQuote ==
    /\ cur = DQ
    /\ state' = "ReadingDoubleQuote"
    /\ pos' = pos + 1
    /\ UNCHANGED <<input, depth, buf, parts, tokens, out>>

StartsSubst == cur = "$"

StartStep ==
    /\ out.status = "running" /\ pos <= Len(input) /\ state = "Start"
    /\ UNCHANGED nonLexVars
    /\ \/ /\ IsSpace(cur)
          /\ pos' = pos + 1
          /\ UNCHANGED <<input, state, depth, buf, parts, tokens, out>>
       \/ OpenSingleQuote
       \/ OpenDoubleQuote
       \/ EnterCmdSubst
       \/ EnterParamSubst
       \/ SimpleVar
       \/ /\ IsOperatorChar(cur)
          /\ tokens' = Append(tokens, OpToken(cur))
          /\ pos' = pos + 1
          /\ UNCHANGED <<input, state, depth, buf, parts, out>>
       \/ /\ ~IsSpace(cur) /\ cur \notin {SQ, DQ} /\ ~IsOperatorChar(cur)
          /\ ~StartsSubst
          /\ LiteralChar("ReadingWord")

ReadingWordStep ==
    /\ out.status = "running" /\ pos <= Len(input) /\ state = "ReadingWord"
    /\ UNCHANGED nonLexVars
    /\ \/ /\ IsSpace(cur)
          /\ tokens' = Append(tokens, Word(FlushBuf(parts, buf)))
          /\ state' = "Start"
          /\ buf' = <<>>
          /\ parts' = <<>>
          /\ pos' = pos + 1
          /\ UNCHANGED <<input, depth, out>>
       \/ OpenSingleQuote
       \/ OpenDoubleQuote
       \/ EnterCmdSubst
       \/ EnterParamSubst
       \/ SimpleVar
       \/ /\ IsOperatorChar(cur)
          /\ tokens' = tokens \o <<Word(FlushBuf(parts, buf)), OpToken(cur)>>
          /\ state' = "Start"
          /\ buf' = <<>>
          /\ parts' = <<>>
          /\ pos' = pos + 1
          /\ UNCHANGED <<input, depth, out>>
       \/ /\ ~IsSpace(cur) /\ cur \notin {SQ, DQ} /\ ~IsOperatorChar(cur)
          /\ ~StartsSubst
          /\ LiteralChar("ReadingWord")

\* ReadingSingleQuote that still recognises `$(` and `${`, as double
\* quotes do.
ReadingSingleQuoteStepSubst ==
    /\ out.status = "running" /\ pos <= Len(input) /\ state = "ReadingSingleQuote"
    /\ UNCHANGED nonLexVars
    /\ \/ /\ cur = SQ
          /\ state' = "ReadingWord"
          /\ pos' = pos + 1
          /\ UNCHANGED <<input, depth, buf, parts, tokens, out>>
       \/ EnterCmdSubst
       \/ EnterParamSubst
       \/ /\ cur # SQ
          /\ ~(cur = "$" /\ nxt \in {"(", "{"})
          /\ LiteralChar("ReadingSingleQuote")

ReadingSingleQuoteStep ==
    /\ out.status = "running" /\ pos <= Len(input) /\ state = "ReadingSingleQuote"
    /\ UNCHANGED nonLexVars
    /\ \/ /\ cur = SQ
          /\ state' = "ReadingWord"
          /\ pos' = pos + 1
          /\ UNCHANGED <<input, depth, buf, parts, tokens, out>>
       \/ /\ cur # SQ
          /\ LiteralChar("ReadingSingleQuote")

ReadingDoubleQuoteStep ==
    /\ out.status = "running" /\ pos <= Len(input) /\ state = "ReadingDoubleQuote"
    /\ UNCHANGED nonLexVars
    /\ \/ /\ cur = DQ
          /\ state' = "ReadingWord"
          /\ pos' = pos + 1
          /\ UNCHANGED <<input, depth, buf, parts, tokens, out>>
       \/ EnterCmdSubst
       \/ EnterParamSubst
       \/ /\ cur # DQ
          /\ ~(cur = "$" /\ nxt \in {"(", "{"})
          /\ LiteralChar("ReadingDoubleQuote")

\* SubstStep that does not count inner opening delimiters.
SubstStepNoNest(open, close, kind) ==
    \/ /\ cur = close
       /\ parts' = Append(parts, [kind |-> kind, text |-> buf])
       /\ buf' = <<>>
       /\ depth' = 0
       /\ state' = "ReadingWord"
       /\ pos' = pos + 1
       /\ UNCHANGED <<input, tokens, out>>
    \/ /\ cur # close
       /\ buf' = Append(buf, cur)
       /\ pos' = pos + 1
       /\ UNCHANGED <<input, state, depth, parts, tokens, out>>

\* SubstStep in which the closing delimiter of either kind lowers the depth.
SubstStepAnyCloser(open, close, kind) ==
    \/ /\ cur = open
       /\ depth' = depth + 1
       /\ buf' = Append(buf, cur)
       /\ pos' = pos + 1
       /\ UNCHANGED <<input, state, parts, tokens, out>>
    \/ /\ cur \in {")", "}"} /\ depth = 1
       /\ parts' = Append(parts, [kind |-> kind, text |-> buf])
       /\ buf' = <<>>
       /\ depth' = 0
       /\ state' = "ReadingWord"
       /\ pos' = pos + 1
       /\ UNCHANGED <<input, tokens, out>>
    \/ /\ cur \in {")", "}"} /\ depth # 1
       /\ depth' = depth - 1
       /\ buf' = Append(buf, cur)
       /\ pos' = pos + 1
       /\ UNCHANGED <<input, state, parts, tokens, out>>
    \/ /\ cur \notin {open, ")", "}"}
       /\ buf' = Append(buf, cur)
       /\ pos' = pos + 1
       /\ UNCHANGED <<input, state, depth, parts, tokens, out>>

\* One character inside a substitution whose nesting pair is open/close;
\* kind is the kind of the WordPart emitted when the substitution closes.
SubstStep(open, close, kind) ==
    \/ /\ cur = open
       /\ depth' = depth + 1
       /\ buf' = Append(buf, cur)
       /\ pos' = pos + 1
       /\ UNCHANGED <<input, state, parts, tokens, out>>
    \/ /\ cur = close /\ depth = 1
       /\ parts' = Append(parts, [kind |-> kind, text |-> buf])
       /\ buf' = <<>>
       /\ depth' = 0
       /\ state' = "ReadingWord"
       /\ pos' = pos + 1
       /\ UNCHANGED <<input, tokens, out>>
    \/ /\ cur = close /\ depth # 1
       /\ depth' = depth - 1
       /\ buf' = Append(buf, cur)
       /\ pos' = pos + 1
       /\ UNCHANGED <<input, state, parts, tokens, out>>
    \/ /\ cur \notin {open, close}
       /\ buf' = Append(buf, cur)
       /\ pos' = pos + 1
       /\ UNCHANGED <<input, state, depth, parts, tokens, out>>

ReadingCmdSubstStep ==
    /\ out.status = "running" /\ pos <= Len(input) /\ state = "ReadingCmdSubst"
    /\ UNCHANGED nonLexVars
    /\ SubstStep("(", ")", "CmdSubst")

ReadingParamSubstStep ==
    /\ out.status = "running" /\ pos <= Len(input) /\ state = "ReadingParamSubst"
    /\ UNCHANGED nonLexVars
    /\ SubstStep("{", "}", "ParamSubst")

\* End of input: accept in Start, accept in ReadingWord after flushing the
\* pending word, LexError (and no tokens) in every other state.
EndOfInput ==
    /\ out.status = "running" /\ pos > Len(input)
    /\ UNCHANGED nonLexVars
    /\ \/ /\ state = "Start"
          /\ out' = [status |-> "ok", tokens |-> tokens]
          /\ UNCHANGED <<input, pos, state, depth, buf, parts, tokens>>
       \/ /\ state = "ReadingWord"
          /\ tokens' = Append(tokens, Word(FlushBuf(parts, buf)))
          /\ out' = [status |-> "ok", tokens |-> tokens']
          /\ state' = "Start"
          /\ buf' = <<>>
          /\ parts' = <<>>
          /\ UNCHANGED <<input, pos, depth>>
       \/ /\ state \notin {"Start", "ReadingWord"}
          /\ out' = [status |-> "LexError", tokens |-> <<>>]
          /\ UNCHANGED <<input, pos, state, depth, buf, parts, tokens>>

(***************************************************************************)
(* Lines given to tokenize                                                 *)
(***************************************************************************)
LexAlphabet ==
    {"a", "1", " ", SQ, DQ, "$", "(", ")", "{", "}", "|", "=", "/", "<", ">"}

NestAlphabet == {"a", "$", "(", ")", "{", "}"}

\* echo "$(echo hi)"
LineEchoQuotedSubst ==
    <<"e","c","h","o"," ",DQ,"$","(","e","c","h","o"," ","h","i",")",DQ>>

\* echo 'unterminated)
LineUnterminated ==
    <<"e","c","h","o"," ",SQ,"u","n","t","e","r","m","i","n","a","t","e","d",")">>

\* $(echo $(date))
LineNested ==
    <<"$","(","e","c","h","o"," ","$","(","d","a","t","e",")",")">>

\* echo '$x "|" =/<> ({' y
LineSingleQuoted ==
    <<"e","c","h","o"," ",SQ,"$","x"," ",DQ,"|",DQ," ","=","/","<",">"," ",
      "(","{",SQ," ","y">>

ExampleLines ==
    {LineEchoQuotedSubst, LineUnterminated, LineNested, LineSingleQuoted}

LexInputs ==
    SeqsUpTo(LexAlphabet, MaxLen) \cup SeqsUpTo(NestAlphabet, MaxNestLen)
        \cup ExampleLines

InitLex ==
    /\ input \in LexInputs
    /\ pos = 1
    /\ state = "Start"
    /\ depth = 0
    /\ buf = <<>>
    /\ parts = <<>>
    /\ tokens = <<>>
    /\ out = [status |-> "running", tokens |-> <<>>]
    /\ ExecIdle
    /\ ChatIdle
    /\ ParseIdle
    /\ ClientIdle
    /\ ExpandIdle
    /\ TuiIdle

NextLex ==
    \/ StartStep
    \/ ReadingWordStep
    \/ ReadingSingleQuoteStep
    \/ ReadingDoubleQuoteStep
    \/ ReadingCmdSubstStep
    \/ ReadingParamSubstStep
    \/ EndOfInput

SpecLex == InitLex /\ [][NextLex]_vars

(***************************************************************************)
(* Executor: execute_ast (task1/solution.md, "Исполнение команд по AST")   *)
(***************************************************************************)
ApplyAssignment(e, a) == [e EXCEPT ![a.name] = a.value]

\* The assignments applied from the last one to the first.
RECURSIVE ApplyAllRightToLeft(_, _)
ApplyAllRightToLeft(e, as) ==
    IF as = <<>> THEN e
    ELSE ApplyAssignment(ApplyAllRightToLeft(e, Tail(as)), Head(as))

\* The assignments of a command applied to e, left to right.
RECURSIVE ApplyAll(_, _)
ApplyAll(e, as) ==
    IF as = <<>> THEN e
    ELSE ApplyAll(ApplyAssignment(e, Head(as)), Tail(as))

\* Pipeline that reports the first failure instead of the last exit code.
StoreExitCodeFirstFailure(last, code) == IF last # 0 THEN last ELSE code

\* UpdateState: Store exit code.
StoreExitCode(last, code) == code

\* Captured output appended to what was captured before.
StoreOutputAppended(prev, stdout) == prev \o stdout

\* UpdateState: Store stdout / captured output in previous_output.
StoreOutput(prev, stdout) == stdout

\* A line that ends in the lexer or the parser: the error is reported with
\* its fixed code, and nothing of the line reaches execute_ast.
RejectLineSilently(kind) ==
    /\ xpc = "Prompt"
    /\ exit_code' = 0
    /\ obs' = [NoObs EXCEPT !.env_before = env, !.rejected = kind]
    /\ xpc' = "Done"
    /\ final_stdout' = <<>>
    /\ UNCHANGED <<env, ast, idx, local_env, previous_output, last_exit>>
    /\ UNCHANGED nonExecVars

RejectLine(kind) ==
    /\ xpc = "Prompt"
    /\ exit_code' = LineErrorCode
    /\ obs' = [NoObs EXCEPT !.env_before = env, !.rejected = kind]
    /\ xpc' = "Done"
    /\ final_stdout' = <<>>
    /\ UNCHANGED <<env, ast, idx, local_env, previous_output, last_exit>>
    /\ UNCHANGED nonExecVars

LexErrorLine == RejectLine("LexError")

ParseErrorLine == RejectLine("ParseError")

\* A failure that is reported as success.
FailureExitDropped(failure) == 0

\* The exit code of a command that could not be run.
FailureExit(failure) ==
    IF failure = "not_found" THEN CommandNotFound ELSE SpawnFailed

\* A command that ran, as a built-in or as a spawned process.
Ran(via) ==
    {[stdout |-> o, code |-> c, failure |-> "none", via |-> via] :
        o \in Outputs, c \in ExitCodes}

\* A command that did not run: the spawn failed, or nothing has the name and
\* nothing was spawned.
Failed(f) ==
    [stdout |-> <<>>, code |-> FailureExit(f), failure |-> f,
     via |-> IF f = "spawn" THEN "external" ELSE "none"]

\* A resolution that searched the path first would run the external program
\* that has the name of a built-in.
ResultsPathFirst(name) ==
    IF name \in OnPath THEN Ran("external") \cup {Failed("spawn")}
    ELSE IF name \in Builtins THEN Ran("builtin")
    ELSE {Failed("not_found")}

\* What running the command called name can end in: a built-in or a spawned
\* program writes its output and exits with its code; a program on the path
\* may fail to spawn; a name that resolves to nothing is not run.
Results(name) ==
    IF name \in Builtins THEN Ran("builtin")
    ELSE IF name \in OnPath THEN Ran("external") \cup {Failed("spawn")}
    ELSE {Failed("not_found")}

\* ExecuteAST: read the line's AST and dispatch on the root node.
ExecuteAST ==
    /\ xpc = "Prompt"
    /\ \E a \in Lines :
          /\ ast' = a
          /\ xpc' = IF a.node = "Command" THEN "SimpleCommand"
                    ELSE "PipelineExecution"
    /\ obs' = [NoObs EXCEPT !.env_before = env]
    /\ final_stdout' = <<>>
    /\ UNCHANGED <<env, idx, local_env, previous_output, last_exit, exit_code>>
    /\ UNCHANGED nonExecVars

\* SimpleCommand / ApplyAssignments: VAR=VAL modify self.env.
ApplyAssignments ==
    /\ xpc = "SimpleCommand"
    /\ env' = ApplyAll(env, ast.cmds[1].assignments)
    /\ xpc' = "CheckEmptyArgv"
    /\ UNCHANGED <<ast, idx, local_env, previous_output, last_exit,
                   final_stdout, exit_code, obs>>
    /\ UNCHANGED nonExecVars

\* SimpleCommand / CheckEmptyArgv: empty argv returns Ok(0).
CheckEmptyArgv ==
    /\ xpc = "CheckEmptyArgv"
    /\ IF ast.cmds[1].argv = <<>>
       THEN /\ exit_code' = 0
            /\ xpc' = "Done"
       ELSE /\ xpc' = "Run"
            /\ UNCHANGED exit_code
    /\ UNCHANGED <<env, ast, idx, local_env, previous_output, last_exit,
                   final_stdout, obs>>
    /\ UNCHANGED nonExecVars

\* SimpleCommand / ResolveArgs, Run: self.run(name, args) with self.env.
Run ==
    /\ xpc = "Run"
    /\ \E r \in Results(ast.cmds[1].argv[1]) :
          /\ final_stdout' = r.stdout
          /\ exit_code' = r.code
          /\ obs' = [obs EXCEPT !.ran = 1,
                                !.stage_cmd = ast.cmds[1],
                                !.cmd_env = env,
                                !.stdout_last = r.stdout,
                                !.stage_exit = r.code,
                                !.failure = r.failure,
                                !.via = r.via]
    /\ xpc' = "Done"
    /\ UNCHANGED <<env, ast, idx, local_env, previous_output, last_exit>>
    /\ UNCHANGED nonExecVars

\* PipelineExecution / InitPipeline: Init previous_output, last_exit.
InitPipeline ==
    /\ xpc = "PipelineExecution"
    /\ previous_output' = <<>>
    /\ last_exit' = 0
    /\ idx' = 1
    /\ xpc' = "LoopPipeline"
    /\ UNCHANGED <<env, ast, local_env, final_stdout, exit_code, obs>>
    /\ UNCHANGED nonExecVars

\* One iteration of LoopPipeline for the stage at idx: ApplyLocalEnv (clone
\* self.env, apply the stage's assignments to the clone), ResolveArgsPipe,
\* then the stage runs with previous_output as its input, and its output and
\* exit code are stored.
RunStage ==
    LET cmd == ast.cmds[idx]
        stage_env == ApplyAll(env, cmd.assignments)
    IN /\ local_env' = stage_env
       /\ \E r \in Results(cmd.argv[1]) :
             /\ previous_output' = StoreOutput(previous_output, r.stdout)
             /\ last_exit' = StoreExitCode(last_exit, r.code)
             /\ obs' = [obs EXCEPT !.ran = obs.ran + 1,
                                   !.stage_cmd = cmd,
                                   !.cmd_env = stage_env,
                                   !.stdin_seen = previous_output,
                                   !.stdout_prev = obs.stdout_last,
                                   !.stdout_last = r.stdout,
                                   !.stage_exit = r.code,
                                   !.failure = r.failure,
                                   !.via = r.via,
                                   !.earlier_failed =
                                       obs.earlier_failed \/ obs.stage_exit # 0]
       /\ idx' = idx + 1
       /\ UNCHANGED <<env, ast, xpc, final_stdout, exit_code>>
       /\ UNCHANGED nonExecVars

\* LoopPipeline / ExternalProcess: Spawn, PipeInput, Wait, UpdateStateExternal.
ExternalProcess ==
    /\ xpc = "LoopPipeline" /\ idx <= Len(ast.cmds)
    /\ ast.cmds[idx].argv[1] \notin Builtins
    /\ RunStage

\* LoopPipeline / InternalCommand: CreateCmd, Execute, UpdateStateInternal.
InternalCommand ==
    /\ xpc = "LoopPipeline" /\ idx <= Len(ast.cmds)
    /\ ast.cmds[idx].argv[1] \in Builtins
    /\ RunStage

\* WriteFinalOutput, WriteToFinal: write previous_output, return last_exit.
WriteFinalOutput ==
    /\ xpc = "LoopPipeline" /\ idx > Len(ast.cmds)
    /\ final_stdout' = previous_output
    /\ exit_code' = last_exit
    /\ xpc' = "Done"
    /\ UNCHANGED <<env, ast, idx, local_env, previous_output, last_exit, obs>>
    /\ UNCHANGED nonExecVars

\* The line is finished: its AST and results are discarded, the store stays.
NextLine ==
    /\ xpc = "Done"
    /\ xpc' = "Prompt"
    /\ ast' = NoAst
    /\ idx' = 0
    /\ local_env' = [n \in Names |-> Unset]
    /\ previous_output' = <<>>
    /\ last_exit' = 0
    /\ final_stdout' = <<>>
    /\ exit_code' = 0
    /\ obs' = NoObs
    /\ UNCHANGED env
    /\ UNCHANGED nonExecVars

\* The store is seeded from the startup configuration: any mapping.
InitExec ==
    /\ env \in [Names -> Values \cup {Unset}]
    /\ ast = NoAst
    /\ xpc = "Prompt"
    /\ idx = 0
    /\ local_env = [n \in Names |-> Unset]
    /\ previous_output = <<>>
    /\ last_exit = 0
    /\ final_stdout = <<>>
    /\ exit_code = 0
    /\ obs = NoObs
    /\ LexIdle
    /\ ChatIdle
    /\ ParseIdle
    /\ ClientIdle
    /\ ExpandIdle
    /\ TuiIdle

NextExec ==
    \/ LexErrorLine
    \/ ParseErrorLine
    \/ ExecuteAST
    \/ ApplyAssignments
    \/ CheckEmptyArgv
    \/ Run
    \/ InitPipeline
    \/ ExternalProcess
    \/ InternalCommand
    \/ WriteFinalOutput
    \/ NextLine

SpecExec == InitExec /\ [][NextExec]_vars

(***************************************************************************)
(* Chat server: Send and Notify                                            *)
(***************************************************************************)
\* ORDER BY ts_seconds, ts_nanos, id ASC
Before(x, y) == x.ts < y.ts \/ (x.ts = y.ts /\ x.id < y.id)

RECURSIVE SortRows(_)
SortRows(S) ==
    IF S = {} THEN <<>>
    ELSE LET first == CHOOSE x \in S : \A y \in S \ {x} : Before(x, y)
         IN <<first>> \o SortRows(S \ {first})

\* The history query without its WHERE clause.
QueryHistoryAllRooms(rows, room) ==
    SortRows({rows[i] : i \in 1..Len(rows)})

\* SELECT ... FROM messages WHERE room = ? ORDER BY ts_seconds, ts_nanos, id
QueryHistory(rows, room) ==
    SortRows({rows[i] : i \in {j \in 1..Len(rows) : rows[j].room = room}})

\* A search that started at the message with the Id SinceId would replay
\* that message again.
RECURSIVE StartAtMatch(_, _, _)
StartAtMatch(past, since_id, i) ==
    IF i > Len(past) THEN 1
    ELSE IF past[i].id = since_id THEN i
    ELSE StartAtMatch(past, since_id, i + 1)

\* Notify, lines 206-214: index after the first message whose Id is
\* SinceId, 1 if there is none.
RECURSIVE StartAfter(_, _, _)
StartAfter(past, since_id, i) ==
    IF i > Len(past) THEN 1
    ELSE IF past[i].id = since_id THEN i + 1
    ELSE StartAfter(past, since_id, i + 1)

StartIndex(past, since_id) ==
    IF since_id # NoId THEN StartAfter(past, since_id, 1) ELSE 1

\* The replay loop skips a message that is not after req.Since.
Passes(m, since) == since = NoSince \/ m.ts > since

\* First index from k on whose message the replay loop sends.
RECURSIVE NextReplay(_, _, _)
NextReplay(past, k, since) ==
    IF k > Len(past) \/ Passes(past[k], since) THEN k
    ELSE NextReplay(past, k + 1, since)

\* remove(): the first occurrence of ch leaves the room's list.
RECURSIVE RemoveFirst(_, _)
RemoveFirst(list, ch) ==
    IF list = <<>> THEN <<>>
    ELSE IF Head(list) = ch THEN Tail(list)
    ELSE <<Head(list)>> \o RemoveFirst(Tail(list), ch)

\* A remove() that dropped the whole room would unregister the other
\* subscribers of the room with the one that returns.
RemoveRoom(sb, room, ch) == Delete(sb, room)

\* remove(), lines 188-204: the key goes with the last channel of the room.
Remove(sb, room, ch) ==
    LET list == RemoveFirst(Get(sb, room), ch)
    IN IF list = <<>> THEN Delete(sb, room) ELSE Put(sb, room, list)

\* A send that waits for room in the channel would never drop; the
\* non-blocking send of a channel taken as unbounded.
TrySendUnbounded(q, m) == Append(q, m)

\* select { case ch <- msg: default: }
TrySend(q, m) == IF Len(q) < ChanCap THEN Append(q, m) ELSE q

\* Where the replay loop starts: after SinceId, at the first message that
\* passes Since.
ReplayFrom(past, req) ==
    NextReplay(past, StartIndex(past, req.since_id), req.since)

\* Send without the check of the room: every non-nil request is stored and
\* broadcast.
SendBeginAcceptsEmptyRoom(p, req) ==
    /\ snd[p].pc \in {"idle", "done"}
    /\ FirstFree(Handlers, p, [q \in Procs |-> snd[q].pc \in {"idle", "done"}])
    /\ calls < MaxCalls
    /\ clock' \in clock..MaxClock
    /\ snd' = [snd EXCEPT ![p] =
                 IF req = Nil
                 THEN [IdleSend EXCEPT
                         !.pc = "done", !.req = req,
                         !.resp = [NoResponse EXCEPT !.error = "nil request",
                                                     !.err = "nil request"]]
                 ELSE [IdleSend EXCEPT
                         !.pc = "insert", !.req = req,
                         !.msg = ChatMessage(calls + 1, NoId, "r1", req.sender,
                                             req.text, clock')]]
    /\ calls' = calls + 1
    /\ UNCHANGED <<hasDb, db, rooms, subs, chan, ntf, stream, log>>
    /\ UNCHANGED nonChatVars

\* Send, lines 80-101: validation, sender default, timestamp. The clock
\* is read here; it never runs backwards between two readings.
SendBegin(p, req) ==
    /\ snd[p].pc \in {"idle", "done"}
    /\ FirstFree(Handlers, p, [q \in Procs |-> snd[q].pc \in {"idle", "done"}])
    /\ calls < MaxCalls
    /\ clock' \in clock..MaxClock
    /\    snd' = [snd EXCEPT ![p] =
              IF req = Nil
              THEN [IdleSend EXCEPT
                      !.pc = "done", !.req = req,
                      !.resp = [NoResponse EXCEPT !.error = "nil request",
                                                  !.err = "nil request"]]
              ELSE IF req.room = ""
              THEN [IdleSend EXCEPT
                      !.pc = "done", !.req = req,
                      !.resp = [NoResponse EXCEPT !.error = "room required"]]
              ELSE [IdleSend EXCEPT
                      !.pc = "insert", !.req = req,
                      !.msg = ChatMessage(calls + 1, NoId, req.room,
                                          IF req.sender = "" THEN "anonymous"
                                          ELSE req.sender,
                                          req.text, clock')]]
    /\ calls' = calls + 1
    /\ UNCHANGED <<hasDb, db, rooms, subs, chan, ntf, stream, log>>
    /\ UNCHANGED nonChatVars

\* A Send that kept the message in s.rooms when there is no database would
\* give later subscribers a history.
SendInsertRemembers(p) ==
    /\ snd[p].pc = "insert"
    /\ \/ /\ hasDb
          /\ LET row == [snd[p].msg EXCEPT !.id = Len(db) + 1]
             IN /\ db' = Append(db, row)
                /\ snd' = [snd EXCEPT ![p].msg = row, ![p].pc = "snapshot"]
          /\ UNCHANGED rooms
       \/ /\ hasDb
          /\ snd' = [snd EXCEPT ![p].pc = "snapshot"]
          /\ UNCHANGED <<db, rooms>>
       \/ /\ ~hasDb
          /\ snd' = [snd EXCEPT ![p].pc = "snapshot"]
          /\ rooms' = Put(rooms, snd[p].msg.room,
                          Append(Get(rooms, snd[p].msg.room), snd[p].msg))
          /\ UNCHANGED db
    /\ UNCHANGED <<hasDb, subs, chan, clock, ntf, stream, calls, log>>
    /\ UNCHANGED nonChatVars

\* Send, lines 103-115: INSERT; on success msg.Id is the row id, on an error
\* the message keeps an empty Id.
SendInsert(p) ==
    /\ snd[p].pc = "insert"
    /\ \/ /\ hasDb
          /\ LET row == [snd[p].msg EXCEPT !.id = Len(db) + 1]
             IN /\ db' = Append(db, row)
                /\ snd' = [snd EXCEPT ![p].msg = row, ![p].pc = "snapshot"]
       \/ /\ hasDb
          /\ snd' = [snd EXCEPT ![p].pc = "snapshot"]
          /\ UNCHANGED db
       \/ /\ ~hasDb
          /\ snd' = [snd EXCEPT ![p].pc = "snapshot"]
          /\ UNCHANGED db
    /\ UNCHANGED <<hasDb, rooms, subs, chan, clock, ntf, stream, calls, log>>
    /\ UNCHANGED nonChatVars

\* A broadcast that reaches only the subscribers whose replay is over.
SendSnapshotLiveOnly(p) ==
    /\ snd[p].pc = "snapshot"
    /\ LET IsLive(c) == ntf[c].pc = "live"
       IN snd' = [snd EXCEPT
                    ![p].targets = SelectSeq(Get(subs, snd[p].msg.room), IsLive),
                    ![p].pc = "deliver"]
    /\ UNCHANGED <<hasDb, db, rooms, subs, chan, clock, ntf, stream, calls, log>>
    /\ UNCHANGED nonChatVars

\* Send, lines 117-119: copy of s.subs[req.Room] under the read lock.
SendSnapshot(p) ==
    /\ snd[p].pc = "snapshot"
    /\ snd' = [snd EXCEPT ![p].targets = Get(subs, snd[p].msg.room),
                          ![p].pc = "deliver"]
    /\ UNCHANGED <<hasDb, db, rooms, subs, chan, clock, ntf, stream, calls, log>>
    /\ UNCHANGED nonChatVars

\* A broadcast loop whose send waits for room in the channel.
SendDeliverBlocking(p) ==
    /\ snd[p].pc = "deliver"
    /\ snd[p].targets # <<>>
    /\ Len(chan[Head(snd[p].targets)]) < ChanCap
    /\ chan' = [chan EXCEPT ![Head(snd[p].targets)] = Append(@, snd[p].msg)]
    /\ snd' = [snd EXCEPT ![p].targets = Tail(@)]
    /\ UNCHANGED <<hasDb, db, rooms, subs, clock, ntf, stream, calls, log>>
    /\ UNCHANGED nonChatVars

\* Send, lines 121-126: one iteration of the broadcast loop.
SendDeliver(p) ==
    /\ snd[p].pc = "deliver"
    /\ snd[p].targets # <<>>
    /\ LET ch == Head(snd[p].targets)
           m == snd[p].msg
       IN /\ chan' = [chan EXCEPT ![ch] = TrySend(@, m)]
          /\ log' = [log EXCEPT
                       !.dropped = IF chan'[ch] = chan[ch]
                                   THEN @ \cup {<<m.n, ch>>} ELSE @]
    /\ snd' = [snd EXCEPT ![p].targets = Tail(@)]
    /\ UNCHANGED <<hasDb, db, rooms, subs, clock, ntf, stream, calls>>
    /\ UNCHANGED nonChatVars

\* Send, lines 128-132: the response.
SendReturn(p) ==
    /\ snd[p].pc = "deliver"
    /\ snd[p].targets = <<>>
    /\ snd' = [snd EXCEPT
                 ![p] = [IdleSend EXCEPT
                           !.pc = "done", !.req = snd[p].req,
                           !.resp = [NoResponse EXCEPT !.ok = TRUE,
                                                       !.id = snd[p].msg.id,
                                                       !.ts = snd[p].msg.ts]]]
    /\ log' = [log EXCEPT !.sent = @ \cup {snd[p].msg}]
    /\ UNCHANGED <<hasDb, db, rooms, subs, chan, clock, ntf, stream, calls>>
    /\ UNCHANGED nonChatVars

\* Notify has returned err; its locals are gone.
Returned(call, err) ==
    [IdleNotify EXCEPT !.pc = "returned", !.req = call.req, !.err = err]

\* Notify that registers its channel before it looks at the request.
NotifyBeginRegistersFirst(c, req) ==
    /\ ntf[c].pc = "idle"
    /\ FirstFree(Streams, c, [d \in Subs |-> ntf[d].pc = "idle"])
    /\ calls < MaxCalls
    /\ calls' = calls + 1
    /\ subs' = Register(subs, "r1", c)
    /\ ntf' = [ntf EXCEPT ![c] =
                 IF req = Nil \/ (req # Nil /\ req.room = "")
                 THEN [IdleNotify EXCEPT !.pc = "returned", !.req = req,
                                         !.err = "room required"]
                 ELSE [IdleNotify EXCEPT !.pc = "query", !.req = req]]
    /\ UNCHANGED <<hasDb, db, rooms, chan, clock, snd, stream, log>>
    /\ UNCHANGED nonChatVars

\* Notify, lines 135-144: validation, make(chan), registration in s.subs.
NotifyBegin(c, req) ==
    /\ ntf[c].pc = "idle"
    /\ FirstFree(Streams, c, [d \in Subs |-> ntf[d].pc = "idle"])
    /\ calls < MaxCalls
    /\ calls' = calls + 1
    /\    IF req = Nil \/ (req # Nil /\ req.room = "")
          THEN /\ ntf' = [ntf EXCEPT ![c] =
                            [IdleNotify EXCEPT !.pc = "returned", !.req = req,
                                               !.err = "room required"]]
               /\ UNCHANGED subs
          ELSE /\ ntf' = [ntf EXCEPT ![c] =
                            [IdleNotify EXCEPT
                               !.pc = "query", !.req = req,
                               !.earlier = {m \in log.sent :
                                              m.room = req.room},
                               !.mark = Len(db)]]
               /\ subs' = Register(subs, req.room, c)
    /\ UNCHANGED <<hasDb, db, rooms, chan, clock, snd, stream, log>>
    /\ UNCHANGED nonChatVars

\* Notify, lines 146-214: the history (from the database, empty when the
\* query fails, or from s.rooms without a database) and the replay start.
NotifyQuery(c) ==
    /\ ntf[c].pc = "query"
    /\ \E past \in IF hasDb
                   THEN {QueryHistory(db, ntf[c].req.room), <<>>}
                   ELSE {Get(rooms, ntf[c].req.room)} :
          LET k == ReplayFrom(past, ntf[c].req)
          IN ntf' = [ntf EXCEPT
                       ![c].past = past,
                       ![c].k = k,
                       ![c].pc = IF k > Len(past) THEN "live" ELSE "replay"]
    /\ UNCHANGED <<hasDb, db, rooms, subs, chan, clock, snd, stream, calls, log>>
    /\ UNCHANGED nonChatVars

\* Notify, lines 216-231: one stream.Send of the replay loop; an error
\* removes the channel and returns.
NotifyReplay(c) ==
    /\ ntf[c].pc = "replay"
    /\ \/ /\ stream' = [stream EXCEPT ![c] = Append(@, ntf[c].past[ntf[c].k])]
          /\ LET k == NextReplay(ntf[c].past, ntf[c].k + 1, ntf[c].req.since)
             IN ntf' = [ntf EXCEPT
                          ![c].k = k,
                          ![c].pc = IF k > Len(ntf[c].past) THEN "live"
                                    ELSE "replay"]
          /\ UNCHANGED subs
       \/ /\ subs' = Remove(subs, ntf[c].req.room, c)
          /\ ntf' = [ntf EXCEPT ![c] = Returned(@, "stream")]
          /\ UNCHANGED stream
    /\ UNCHANGED <<hasDb, db, rooms, chan, clock, snd, calls, log>>
    /\ UNCHANGED nonChatVars

\* Notify, lines 237-246: a message taken from the channel is sent on the
\* stream; an error removes the channel and returns.
NotifyLive(c) ==
    /\ ntf[c].pc = "live"
    /\ chan[c] # <<>>
    /\ chan' = [chan EXCEPT ![c] = Tail(@)]
    /\ \/ /\ stream' = [stream EXCEPT ![c] = Append(@, Head(chan[c]))]
          /\ UNCHANGED <<subs, ntf>>
       \/ /\ subs' = Remove(subs, ntf[c].req.room, c)
          /\ ntf' = [ntf EXCEPT ![c] = Returned(@, "stream")]
          /\ UNCHANGED stream
    /\ UNCHANGED <<hasDb, db, rooms, clock, snd, calls, log>>
    /\ UNCHANGED nonChatVars

\* Notify, lines 234-236: the stream's context is done.
NotifyCancel(c) ==
    /\ ntf[c].pc = "live"
    /\ subs' = Remove(subs, ntf[c].req.room, c)
    /\ ntf' = [ntf EXCEPT ![c] = Returned(@, "")]
    /\ UNCHANGED <<hasDb, db, rooms, chan, clock, snd, stream, calls, log>>
    /\ UNCHANGED nonChatVars

\* The messages of a subscriber that fell ChanCap - 1 messages behind.
Backlog(withId) ==
    [i \in 1..(ChanCap - 1) |->
        ChatMessage(100 + i, IF withId THEN i ELSE NoId, "r1", "bob", "hi", 0)]

\* A server just created by NewServer, with or without a database.
Fresh ==
    /\ db = <<>>
    /\ subs = NoSubs
    /\ chan = [c \in Subs |-> <<>>]
    /\ ntf = [c \in Subs |-> IdleNotify]
    /\ log = NoLog

\* The same server after s1 subscribed to r1 and ChanCap - 1 messages were
\* sent to r1 that s1's live loop has not yet taken from its channel.
Backlogged ==
    /\ db = IF hasDb THEN Backlog(TRUE) ELSE <<>>
    /\ subs = Register(NoSubs, "r1", "s1")
    /\ chan = [c \in Subs |-> IF c = "s1" THEN Backlog(hasDb) ELSE <<>>]
    /\ ntf = [c \in Subs |->
                IF c = "s1"
                THEN [IdleNotify EXCEPT
                        !.pc = "live",
                        !.req = [room |-> "r1", since_id |-> NoId,
                                 since |-> NoSince]]
                ELSE IdleNotify]
    /\ log = [sent |-> {Backlog(hasDb)[i] : i \in 1..(ChanCap - 1)},
              dropped |-> {}]

InitChat ==
    /\ hasDb \in BOOLEAN
    /\ rooms = NoRooms
    /\ clock = 0
    /\ snd = [p \in Procs |-> IdleSend]
    /\ stream = [c \in Subs |-> <<>>]
    /\ calls = 0
    /\ Fresh
    /\ LexIdle
    /\ ExecIdle
    /\ ParseIdle
    /\ ClientIdle
    /\ ExpandIdle
    /\ TuiIdle

NextChat ==
    \/ \E p \in Procs, req \in SendRequests : SendBegin(p, req)
    \/ \E p \in Procs : SendInsert(p)
    \/ \E p \in Procs : SendSnapshot(p)
    \/ \E p \in Procs : SendDeliver(p)
    \/ \E p \in Procs : SendReturn(p)
    \/ \E c \in Subs, req \in SubscribeRequests : NotifyBegin(c, req)
    \/ \E c \in Subs : NotifyQuery(c)
    \/ \E c \in Subs : NotifyReplay(c)
    \/ \E c \in Subs : NotifyLive(c)
    \/ \E c \in Subs : NotifyCancel(c)

SpecChat == InitChat /\ [][NextChat]_vars

\* A room whose one subscriber has fallen behind: the calls that follow are
\* Sends to that room, one after the other, and a subscription to it by a
\* client that has seen the backlog.
FloodSendRequests == {SendRequest("r1", "bob", "hi")}

FloodSubscribeRequests == {SubscribeRequest("r1", ChanCap - 1, NoSince)}

FloodProcs == {"p1"}

InitFlood ==
    /\ hasDb \in BOOLEAN
    /\ rooms = NoRooms
    /\ clock = 0
    /\ snd = [p \in Procs |-> IdleSend]
    /\ stream = [c \in Subs |-> <<>>]
    /\ calls = 0
    /\ Backlogged
    /\ LexIdle
    /\ ExecIdle
    /\ ParseIdle
    /\ ClientIdle
    /\ ExpandIdle
    /\ TuiIdle

NextFlood ==
    \/ \E p \in FloodProcs, req \in FloodSendRequests : SendBegin(p, req)
    \/ \E p \in FloodProcs : SendInsert(p)
    \/ \E p \in FloodProcs : SendSnapshot(p)
    \/ \E p \in FloodProcs : SendDeliver(p)
    \/ \E p \in FloodProcs : SendReturn(p)
    \/ \E c \in Subs, req \in FloodSubscribeRequests : NotifyBegin(c, req)
    \/ \E c \in Subs : NotifyQuery(c)
    \/ \E c \in Subs : NotifyReplay(c)
    \/ \E c \in Subs : NotifyLive(c)
    \/ \E c \in Subs : NotifyCancel(c)

SpecFlood == InitFlood /\ [][NextFlood]_vars

(***************************************************************************)
(* Properties of the lexer                                                 *)
(***************************************************************************)
CountOf(line, c) == Cardinality({i \in 1..Len(line) : line[i] = c})

HasChar(line, c) == \E i \in 1..Len(line) : line[i] = c

Finished == out.status # "running"

UnterminatedStates ==
    {"ReadingSingleQuote", "ReadingDoubleQuote",
     "ReadingCmdSubst", "ReadingParamSubst"}

WordEcho == Word(<<Literal(<<"e","c","h","o">>)>>)

\* C4: tokenizing `echo "$(echo hi)"` succeeds and yields the literal word
\* `echo` followed by one Word whose single part is CmdSubst("echo hi"):
\* the `"` after the substitution closes the quoted section.
C4_QuotedSubstLexes ==
    (input = LineEchoQuotedSubst /\ Finished) =>
        out = [status |-> "ok",
               tokens |-> <<WordEcho,
                            Word(<<CmdSubst(<<"e","c","h","o"," ","h","i">>)>>)>>]

\* C5: tokenize ends in LexError with no tokens whenever the input ends in
\* ReadingSingleQuote, ReadingDoubleQuote, ReadingCmdSubst or
\* ReadingParamSubst, and accepts only from Start or from ReadingWord with
\* the pending word flushed; a line with an odd number of `'` (and no `"`
\* or `$`) is therefore rejected, `echo 'unterminated)` in particular.
C5_UnterminatedIsLexError ==
    Finished =>
        /\ state \in UnterminatedStates =>
               out = [status |-> "LexError", tokens |-> <<>>]
        /\ state \notin UnterminatedStates =>
               /\ out = [status |-> "ok", tokens |-> tokens]
               /\ state = "Start" /\ buf = <<>> /\ parts = <<>>
        /\ (~HasChar(input, DQ) /\ ~HasChar(input, "$")) =>
               (out.status = "ok" <=> CountOf(input, SQ) % 2 = 0)
        /\ input = LineUnterminated => out.status = "LexError"

C5_Witness ==
    /\ input = LineUnterminated
    /\ state = "ReadingSingleQuote"
    /\ out = [status |-> "LexError", tokens |-> <<>>]

\* A line that is exactly one non-empty single-quoted text.
IsSingleQuotedLine(line) ==
    /\ Len(line) >= 3
    /\ line[1] = SQ /\ line[Len(line)] = SQ
    /\ \A i \in 2..(Len(line) - 1) : line[i] # SQ

\* C6: inside '...' every character is literal: it is appended to the
\* buffered text and produces no token, no part and no word break, and the
\* matching ' returns to ReadingWord; a line '<text>' lexes to one Word
\* holding the single Literal <text>.
C6_SingleQuoteLiteral ==
    /\ [](IsSingleQuotedLine(input) /\ Finished =>
            out = [status |-> "ok",
                   tokens |-> <<Word(<<Literal(SubSeq(input, 2, Len(input) - 1))>>)>>])
    /\ [][(state = "ReadingSingleQuote" /\ pos' # pos) =>
            IF cur = SQ
            THEN /\ state' = "ReadingWord"
                 /\ UNCHANGED <<buf, parts, tokens, depth>>
            ELSE /\ state' = "ReadingSingleQuote"
                 /\ buf' = Append(buf, cur)
                 /\ pos' = pos + 1
                 /\ UNCHANGED <<parts, tokens, depth>>]_vars

C6_Witness ==
    /\ input = LineSingleQuoted
    /\ out = [status |-> "ok",
              tokens |-> <<WordEcho,
                           Word(<<Literal(SubSeq(LineSingleQuoted, 7, 20))>>),
                           Word(<<Literal(<<"y">>)>>)>>]

\* Parentheses of s are balanced: no prefix closes more than it opened.
RECURSIVE ParenDepth(_, _)
ParenDepth(s, n) ==
    IF n = 0 THEN 0
    ELSE ParenDepth(s, n - 1)
           + (IF s[n] = "(" THEN 1 ELSE IF s[n] = ")" THEN -1 ELSE 0)

Balanced(s) ==
    /\ \A n \in 0..Len(s) : ParenDepth(s, n) >= 0
    /\ ParenDepth(s, Len(s)) = 0

\* A line of the form $(<text>) with balanced <text>.
IsCmdSubstLine(line) ==
    /\ Len(line) >= 3
    /\ line[1] = "$" /\ line[2] = "(" /\ line[Len(line)] = ")"
    /\ Balanced(SubSeq(line, 3, Len(line) - 1))

\* C7: a `$(`...`)` with balanced inner parentheses closes at its own
\* matching `)` and at no earlier one: the line lexes to ONE CmdSubst part
\* holding the whole inner text; `$(echo $(date))` gives `echo $(date)`.
C7_NestedCmdSubst ==
    (IsCmdSubstLine(input) /\ Finished) =>
        out = [status |-> "ok",
               tokens |-> <<Word(<<CmdSubst(SubSeq(input, 3, Len(input) - 1))>>)>>]

C7_Witness ==
    /\ input = LineNested
    /\ out = [status |-> "ok",
              tokens |-> <<Word(<<CmdSubst(<<"e","c","h","o"," ",
                                             "$","(","d","a","t","e",")">>)>>)>>]

SubstStates == {"ReadingCmdSubst", "ReadingParamSubst"}

\* C8: inside ReadingCmdSubst / ReadingParamSubst the depth is >= 1; it
\* changes only on the delimiter pair of the substitution's own kind, and
\* the FSM leaves the state only on the closing delimiter that brings the
\* depth to 0.
C8_DepthDiscipline ==
    /\ [](state \in SubstStates => depth >= 1)
    /\ [][(state \in SubstStates /\ pos' # pos) =>
            LET open == IF state = "ReadingCmdSubst" THEN "(" ELSE "{"
                close == IF state = "ReadingCmdSubst" THEN ")" ELSE "}"
            IN /\ depth' # depth => cur \in {open, close}
               /\ cur = open => depth' = depth + 1
               /\ cur = close => depth' = depth - 1
               /\ state' # state =>
                      cur = close /\ depth' = 0 /\ state' = "ReadingWord"
               /\ depth' = 0 => state' # state]_vars

C8_Witness ==
    /\ input = LineNested
    /\ state = "ReadingCmdSubst"
    /\ depth = 2

\* Length of the run of identifier characters of the line starting at i.
RECURSIVE IdentRun(_, _)
IdentRun(line, i) ==
    IF i <= Len(line) /\ IsIdentChar(line[i])
    THEN 1 + IdentRun(line, i + 1)
    ELSE 0

\* C28: in a line that begins with a bare `$`, a following identifier gives
\* a ParamSubst part whose name is the run of identifier characters, ending
\* at the first character that cannot be part of an identifier; a `$`
\* followed by anything else but `(` or `{` stays in the word as Literal
\* text.
C28_BareDollarParameter ==
    (out.status = "ok" /\ Len(input) >= 2 /\ input[1] = "$"
        /\ input[2] \notin {"(", "{"}) =>
        /\ out.tokens # <<>>
        /\ out.tokens[1].type = "Word"
        /\ IF IsIdentStart(input[2])
           THEN out.tokens[1].parts[1] =
                    ParamSubst(SubSeq(input, 2, 1 + IdentRun(input, 2)))
           ELSE /\ out.tokens[1].parts[1].kind = "Literal"
                /\ out.tokens[1].parts[1].text[1] = "$"

(***************************************************************************)
(* Properties of the executor                                              *)
(***************************************************************************)
\* The line consists solely of assignments (no command).
OnlyAssignments == ast.node = "Command" /\ ast.cmds[1].argv = <<>>

\* C1: assignments in front of a command (standalone or pipeline stage) are
\* seen by that command only and leave the ambient store as it was before
\* the line; a line consisting solely of assignments persists them.
C1_AssignmentScope ==
    (xpc = "Done" /\ obs.rejected = "none") =>
        IF OnlyAssignments
        THEN env = ApplyAll(obs.env_before, ast.cmds[1].assignments)
        ELSE /\ env = obs.env_before
             /\ obs.cmd_env = ApplyAll(obs.env_before, obs.stage_cmd.assignments)

\* C2: a finished pipeline has run every one of its stages and reports the
\* exit code of its last stage, whatever the earlier stages exited with.
C2_PipelineExitIsLastStage ==
    (xpc = "Done" /\ ast.node = "Pipeline") =>
        /\ obs.ran = Len(ast.cmds)
        /\ exit_code = obs.stage_exit

C2_Witness ==
    /\ xpc = "Done" /\ ast.node = "Pipeline" /\ Len(ast.cmds) = 2
    /\ obs.earlier_failed
    /\ obs.stage_exit = 0
    /\ exit_code = 0

\* C3: the stages of a pipeline run one at a time in source order, and the
\* input given to stage k (k >= 2) is exactly what stage k-1 wrote, for
\* built-in and external stages alike.
C3_StageInputIsPreviousOutput ==
    /\ []((ast.node = "Pipeline" /\ obs.ran >= 2) =>
            obs.stdin_seen = obs.stdout_prev)
    /\ [][(xpc = "LoopPipeline" /\ obs'.ran # obs.ran) =>
            /\ obs'.ran = obs.ran + 1
            /\ idx = obs.ran + 1 /\ idx' = idx + 1
            /\ obs'.stage_cmd = ast.cmds[idx]]_vars

C3_Witness ==
    /\ xpc = "LoopPipeline" /\ obs.ran = 3
    /\ ast.cmds[1].argv = <<"cat">>
    /\ ast.cmds[2].argv = <<"pwd">>
    /\ obs.stage_cmd.argv = <<"cat">>
    /\ obs.stdout_prev = <<"x">>
    /\ obs.stdin_seen = <<"x">>

ExecStates ==
    {"Prompt", "SimpleCommand", "CheckEmptyArgv", "Run", "PipelineExecution",
     "LoopPipeline", "Done"}

\* C21: a line that fails with a LexError or a ParseError runs no command and
\* applies no assignment (the store is what it was before the line), reports
\* the fixed error code of rejected lines, and leaves the session at the end
\* of the line, from where the next line is read and executed.
C21_RejectedLineRunsNothing ==
    /\ LineErrorCode \notin {0, CommandNotFound}
    /\ obs.rejected # "none" =>
          /\ xpc = "Done"
          /\ obs.ran = 0
          /\ env = obs.env_before
          /\ ast = NoAst
          /\ final_stdout = <<>>
          /\ exit_code = LineErrorCode
          /\ ENABLED NextLine
    /\ xpc = "Prompt" => ENABLED ExecuteAST

C21_Witness ==
    /\ obs.rejected = "ParseError"
    /\ xpc = "Done"
    /\ exit_code = LineErrorCode
    /\ \E n \in Names : env[n] # Unset

Unresolvable(c) == c.argv # <<>> /\ c.argv[1] \notin Builtins \cup OnPath

\* C22: execute always ends in an exit code: a command that exits nonzero, a
\* program that cannot be spawned and a name that resolves to nothing each
\* give a nonzero code, the unresolvable name its own fixed code, and the
\* line ends where the next line is read.
C22_FailuresBecomeExitCodes ==
    /\ xpc \in ExecStates
    /\ CommandNotFound \notin {0, SpawnFailed, LineErrorCode} \cup ExitCodes
    /\ obs.failure # "none" => obs.stage_exit # 0
    /\ obs.ran > 0 =>
          (Unresolvable(obs.stage_cmd) <=> obs.stage_exit = CommandNotFound)
    /\ (xpc = "Done" /\ obs.ran > 0) =>
          /\ exit_code = obs.stage_exit
          /\ ENABLED NextLine

C22_Witness ==
    /\ xpc = "Done" /\ ast.node = "Command"
    /\ ast.cmds[1].argv = <<"nope">>
    /\ obs.failure = "not_found"
    /\ exit_code = CommandNotFound

\* C39: a single command whose argv is empty ends with exit code 0 and
\* nothing resolved or run. A command named like a built-in runs as the
\* built-in, also when a program of that name is on the path; another name
\* on the path is spawned; a name that is neither ends with the
\* command-not-found code and nothing spawned.
C39_ResolutionOrder ==
    (xpc = "Done" /\ ast.node = "Command" /\ obs.rejected = "none") =>
        LET argv == ast.cmds[1].argv
        IN IF argv = <<>>
           THEN exit_code = 0 /\ obs.ran = 0 /\ obs.via = "none"
           ELSE /\ obs.ran = 1
                /\ argv[1] \in {"pwd", "cd", "exit"} =>
                      obs.via = "builtin" /\ obs.failure = "none"
                /\ argv[1] = "cat" => obs.via = "external"
                /\ argv[1] = "nope" =>
                      /\ obs.via = "none"
                      /\ obs.failure = "not_found"
                      /\ exit_code = CommandNotFound

\* pwd, which is also the name of a program on the path, has run as the
\* built-in.
C39_Witness ==
    /\ xpc = "Done" /\ ast.node = "Command"
    /\ ast.cmds[1].argv # <<>>
    /\ ast.cmds[1].argv[1] = "pwd"
    /\ "pwd" \in OnPath
    /\ obs.via = "builtin"
    /\ obs.ran = 1

\* The value of the last assignment to n in as, or old when there is none.
LastWrite(as, n, old) ==
    LET S == {i \in 1..Len(as) : as[i].name = n}
    IN IF S = {} THEN old
       ELSE as[CHOOSE i \in S : \A j \in S : j <= i].value

\* The entries of a store: the names that are set, with their values.
Entries(e) == {<<n, e[n]>> : n \in {m \in Names : e[m] # Unset}}

\* C23: the assignments of a command are applied left to right, the last
\* assignment to a name giving its value and a name not assigned keeping its
\* value; the store never holds two entries for one name.
C23_LastWriteWins ==
    /\ (ast.node = "Command" /\ xpc \in {"CheckEmptyArgv", "Run", "Done"}) =>
          \A n \in Names :
             env[n] = LastWrite(ast.cmds[1].assignments, n, obs.env_before[n])
    /\ (ast.node = "Pipeline" /\ obs.ran > 0) =>
          \A n \in Names :
             obs.cmd_env[n] = LastWrite(obs.stage_cmd.assignments, n, env[n])
    /\ \A n \in Names : Cardinality({p \in Entries(env) : p[1] = n}) <= 1

C23_Witness ==
    /\ xpc = "Done" /\ ast.node = "Command"
    /\ ast.cmds[1].assignments = <<Assignment("A", "21"), Assignment("A", "7")>>
    /\ obs.env_before["A"] = "21"
    /\ env["A"] = "7"


(***************************************************************************)
(* Properties of the chat server                                           *)
(***************************************************************************)
\* One iteration of the broadcast loop of the Send that p runs.
DeliverStep(p) ==
    /\ snd[p].pc = "deliver"
    /\ snd[p].targets # <<>>
    /\ snd'[p].pc = "deliver"
    /\ snd'[p].targets = Tail(snd[p].targets)

\* C9, as stated: a message sent to a room reaches every client subscribed
\* to the room at the time of the Send, i.e. every iteration of the broadcast
\* loop puts the message on the subscriber's channel.
C9_EverySubscriberReceives ==
    [][\A p \in Procs :
         DeliverStep(p) =>
             chan'[Head(snd[p].targets)] =
                 Append(chan[Head(snd[p].targets)], snd[p].msg)]_vars

\* C9, amended: Send broadcasts to exactly the channels registered for the
\* room when it takes its snapshot; an iteration puts the message on the
\* channel when the channel holds fewer than ChanCap undelivered messages and
\* drops it for that subscriber alone when it holds ChanCap; the live loop
\* forwards the channel's messages to the stream in channel order.
C9_BroadcastUnlessFull ==
    /\ [](\A c \in Subs : Len(chan[c]) <= ChanCap)
    /\ [][\A p \in Procs :
            /\ (snd[p].pc = "snapshot" /\ snd'[p].pc = "deliver") =>
                   snd'[p].targets =
                       (IF snd[p].msg.room \in DOMAIN subs
                        THEN subs[snd[p].msg.room] ELSE <<>>)
            /\ DeliverStep(p) =>
                   LET ch == Head(snd[p].targets)
                   IN /\ \A c \in Subs \ {ch} : chan'[c] = chan[c]
                      /\ IF Len(chan[ch]) < ChanCap
                         THEN /\ chan'[ch] = Append(chan[ch], snd[p].msg)
                              /\ log'.dropped = log.dropped
                         ELSE /\ chan'[ch] = chan[ch]
                              /\ <<snd[p].msg.n, ch>> \in log'.dropped]_vars
    /\ [][\A c \in Subs :
            (ntf[c].pc = "live" /\ stream'[c] # stream[c]) =>
                /\ chan[c] # <<>>
                /\ stream'[c] = Append(stream[c], Head(chan[c]))
                /\ chan'[c] = Tail(chan[c])]_vars

\* A message was dropped for one subscriber of the room and another
\* subscriber of the room has it on its stream.
C9_Witness ==
    \E x \in log.dropped :
        \E d \in Subs \ {x[2]} :
            \E i \in 1..Len(stream[d]) : stream[d][i].n = x[1]

\* Notify of c was called without SinceId and Since and has finished its
\* replay.
ReplayedAll(c) ==
    /\ ntf[c].pc = "live"
    /\ ntf[c].req.since_id = NoId
    /\ ntf[c].req.since = NoSince

\* C10: once the replay of a subscriber (no SinceId, no Since) is over, every
\* message whose Send to the room had returned Ok before the subscription is
\* on its stream with its room and sender, these messages stand in the
\* order (ts, id), and none of them comes after a live message.
C10_EarlierMessagesReplayed ==
    \A c \in Subs :
        ReplayedAll(c) =>
            LET h == stream[c]
                old == {m.n : m \in ntf[c].earlier}
            IN /\ \A m \in ntf[c].earlier :
                      \E i \in 1..Len(h) :
                          /\ h[i].n = m.n
                          /\ h[i].room = m.room
                          /\ h[i].sender = m.sender
               /\ \A i, j \in 1..Len(h) :
                      (i < j /\ h[j].n \in old) =>
                          h[i].n \in old /\ Before(h[i], h[j])

\* The request of a Send or Notify call that the validation rejects.
Invalid(req) == req = Nil \/ req.room = ""

\* C11: every Send whose request has a non-empty room returns Ok=true with a
\* non-empty message Id and a non-nil timestamp.
C11_SendReturnsIdAndTs ==
    \A p \in Procs :
        (snd[p].pc = "done" /\ ~Invalid(snd[p].req)) =>
            /\ snd[p].resp.ok
            /\ snd[p].resp.id # NoId
            /\ snd[p].resp.ts # NoResponse.ts

\* The step in which the handler p takes a new Send call.
SendCalled(p) ==
    /\ calls' = calls + 1
    /\ ntf' = ntf
    /\ snd[p].pc \in {"idle", "done"}
    /\ FirstFree(Handlers, p, [q \in Procs |-> snd[q].pc \in {"idle", "done"}])

\* C12: a Send with a nil request returns Ok=false and a non-nil error, a
\* Send with an empty room returns Ok=false, Error="room required" and a nil
\* error; the call returns in the step that takes it and that step changes
\* neither the stored messages nor the registrations, channels and streams.
C12_InvalidSendHasNoEffect ==
    /\ [](\A p \in Procs :
            (snd[p].pc # "idle" /\ Invalid(snd[p].req)) =>
                /\ snd[p].pc = "done"
                /\ ~snd[p].resp.ok
                /\ IF snd[p].req = Nil
                   THEN snd[p].resp.err # ""
                   ELSE /\ snd[p].resp.error = "room required"
                        /\ snd[p].resp.err = "")
    /\ [][\A p \in Procs :
            (SendCalled(p) /\ snd'[p].pc = "done") =>
                UNCHANGED <<db, rooms, subs, chan, stream, log>>]_vars

\* A Send was rejected on a server that has a stored message and a live
\* subscriber waiting for messages.
C12_Witness ==
    /\ db # <<>>
    /\ \E c \in Subs : ntf[c].pc = "live"
    /\ \E p \in Procs :
          /\ snd[p].pc = "done"
          /\ snd[p].req # Nil
          /\ snd[p].req.room = ""

\* C13: Notify with a nil request or an empty room returns an error at once;
\* its channel is registered for no room and nothing is sent on its stream.
C13_InvalidNotifyRegistersNothing ==
    /\ [](\A c \in Subs :
            (ntf[c].pc # "idle" /\ Invalid(ntf[c].req)) =>
                /\ ntf[c].pc = "returned"
                /\ ntf[c].err # ""
                /\ stream[c] = <<>>
                /\ \A r \in DOMAIN subs :
                       \A i \in 1..Len(subs[r]) : subs[r][i] # c)
    /\ [][\A c \in Subs :
            (ntf[c].pc = "idle" /\ ntf'[c].pc = "returned") =>
                UNCHANGED <<db, rooms, subs, chan, stream>>]_vars

\* A Notify was rejected while another subscriber is registered.
C13_Witness ==
    \E c \in Subs :
        /\ ntf[c].pc = "returned"
        /\ Invalid(ntf[c].req)
        /\ \E r \in DOMAIN subs : subs[r] # <<>>

\* The sender a message of the request req carries.
SenderOf(req) == IF req.sender = "" THEN "anonymous" ELSE req.sender

\* C14: a Send that returned Ok has stored exactly one record with the
\* request's room, sender ("anonymous" for an empty sender) and text, which
\* a query for the room returns; no broadcast message has an empty sender.
C14_SendStoresOneRecord ==
    /\ \A p \in Procs :
          (snd[p].pc = "done" /\ snd[p].resp.ok) =>
              LET mine == {i \in 1..Len(db) :
                             /\ db[i].id = snd[p].resp.id
                             /\ db[i].room = snd[p].req.room
                             /\ db[i].sender = SenderOf(snd[p].req)
                             /\ db[i].text = snd[p].req.text}
                  past == QueryHistory(db, snd[p].req.room)
              IN /\ Cardinality(mine) = 1
                 /\ \A i \in mine : \E k \in 1..Len(past) : past[k] = db[i]
    /\ \A c \in Subs :
          /\ \A i \in 1..Len(chan[c]) : chan[c][i].sender # ""
          /\ \A i \in 1..Len(stream[c]) : stream[c][i].sender # ""

\* C31: Send never waits for a subscriber: every iteration of the broadcast
\* loop can be taken whatever the channel holds, an iteration that meets a
\* channel with ChanCap undelivered messages changes no channel and goes on
\* to the remaining subscribers, which receive the message, and the Send
\* that dropped a message still returns Ok = true.
C31_SendNeverBlocks ==
    /\ [](\A p \in FloodProcs :
            /\ (snd[p].pc = "deliver" /\ snd[p].targets # <<>>) =>
                   ENABLED SendDeliver(p)
            /\ (snd[p].pc = "deliver" /\ snd[p].targets = <<>>) =>
                   ENABLED SendReturn(p))
    /\ [][\A p \in FloodProcs :
            /\ (snd[p].pc = "deliver" /\ snd[p].targets # <<>>
                   /\ snd'[p] # snd[p]) =>
                   LET ch == Head(snd[p].targets)
                   IN /\ snd'[p].pc = "deliver"
                      /\ snd'[p].targets = Tail(snd[p].targets)
                      /\ Len(chan[ch]) = ChanCap => chan' = chan
                      /\ Len(chan[ch]) < ChanCap =>
                             chan'[ch] = Append(chan[ch], snd[p].msg)
            /\ (snd[p].pc = "deliver" /\ snd'[p].pc = "done") =>
                   /\ snd[p].targets = <<>>
                   /\ snd'[p].resp.ok
                   /\ snd'[p].resp.err = ""]_vars

\* A Send returned Ok = true for a message that was dropped at the full
\* channel of s1 and that waits in the channel of s2.
C31_Witness ==
    \E m \in log.sent :
        /\ <<m.n, "s1">> \in log.dropped
        /\ \E i \in 1..Len(chan["s2"]) : chan["s2"][i].n = m.n
        /\ \E p \in FloodProcs : snd[p].pc = "done" /\ snd[p].resp.ok

\* Every message of the sequence q belongs to room r.
AllOfRoom(q, r) == \A i \in 1..Len(q) : q[i].room = r

\* C32: a channel is registered only under the room of its Notify, a Send
\* delivers only to channels registered for the room of its message, and
\* what a subscriber has in its history, in its channel and on its stream
\* are messages of its own room only.
C32_RoomIsolation ==
    /\ \A r \in DOMAIN subs :
          \A i \in 1..Len(subs[r]) : ntf[subs[r][i]].req.room = r
    /\ \A p \in Procs :
          \A i \in 1..Len(snd[p].targets) :
             ntf[snd[p].targets[i]].req.room = snd[p].msg.room
    /\ \A c \in Subs :
          (ntf[c].pc \notin {"idle", "returned"}) =>
              /\ AllOfRoom(ntf[c].past, ntf[c].req.room)
              /\ AllOfRoom(chan[c], ntf[c].req.room)
              /\ AllOfRoom(stream[c], ntf[c].req.room)

C32_Witness ==
    \E c, d \in Subs :
        /\ ntf[c].pc = "live" /\ ntf[c].req.room = "r1"
        /\ ntf[d].pc = "live" /\ ntf[d].req.room = "r2"
        /\ Len(stream[c]) = 1 /\ stream[c][1].room = "r1"
        /\ stream[d] = <<>> /\ chan[d] = <<>>

\* The list without the channel c.
Without(list, c) ==
    LET Other(d) == d # c
    IN SelectSeq(list, Other)

\* C33: a Notify that registered its channel and returns has removed that
\* channel and no other: every room's list is the one before without it.
\* In every state a channel is registered at most once, and no room key
\* holds an empty list.
C33_RemoveOwnChannelOnly ==
    /\ [](/\ \A r \in DOMAIN subs : subs[r] # <<>>
          /\ \A r1, r2 \in DOMAIN subs :
                \A i \in 1..Len(subs[r1]) :
                   \A j \in 1..Len(subs[r2]) :
                      subs[r1][i] = subs[r2][j] => (r1 = r2 /\ i = j))
    /\ [][\A c \in Subs :
            (ntf[c].pc \notin {"idle", "returned"}
               /\ ntf'[c].pc = "returned") =>
                 /\ \E i \in 1..Len(Get(subs, ntf[c].req.room)) :
                        Get(subs, ntf[c].req.room)[i] = c
                 /\ \A r \in Rooms :
                        Get(subs', r) = Without(Get(subs, r), c)]_vars

\* One subscriber of r1 returned on a stream error while another one is
\* still registered there, and one returned as the last of its room.
C33_Witness ==
    \E c, d \in Subs :
        /\ ntf[c].pc = "returned" /\ ntf[c].err = "stream"
        /\ ntf[c].req.room = "r1"
        /\ ntf[d].pc = "live" /\ ntf[d].req.room = "r1"
        /\ subs = Put(NoSubs, "r1", <<d>>)

\* C34: the live messages of a subscriber come in increasing id order:
\* of two stored messages waiting in its channel, the one put there first
\* has the smaller id.
C34_LiveInIdOrder ==
    \A c \in Subs :
        \A i, j \in 1..Len(chan[c]) :
            (i < j /\ chan[c][i].id # NoId /\ chan[c][j].id # NoId) =>
                chan[c][i].id < chan[c][j].id

\* Positions of the history whose message has the id.
Matches(past, id) == {i \in 1..Len(past) : past[i].id = id}

\* The first position the replay may send: the one after the message with
\* the id, the start of the history when no message has it.
After(past, id) ==
    IF Matches(past, id) = {} THEN 1
    ELSE 1 + CHOOSE i \in Matches(past, id) :
                 \A j \in Matches(past, id) : i <= j

\* C35: a subscriber that gave a SinceId and no Since is sent, before its
\* live messages, the history after the message with that id in history
\* order, and the whole history when no message of it has the id.
C35_ReplayAfterSinceId ==
    \A c \in Subs :
        (/\ ntf[c].pc \in {"replay", "live"}
         /\ ntf[c].req.since_id # NoId
         /\ ntf[c].req.since = NoSince) =>
            LET start == After(ntf[c].past, ntf[c].req.since_id)
                k == ntf[c].k
            IN /\ start <= k
               /\ k <= Len(ntf[c].past) + 1
               /\ ntf[c].pc = "live" => k = Len(ntf[c].past) + 1
               /\ Len(stream[c]) >= k - start
               /\ SubSeq(stream[c], 1, k - start)
                     = SubSeq(ntf[c].past, start, k - 1)

\* The history has two messages, the first one with the SinceId of the
\* request: the subscriber is live and was sent the second one only.
C35_Witness ==
    \E c \in Subs :
        /\ ntf[c].pc = "live"
        /\ ntf[c].req.since_id = 1
        /\ Len(ntf[c].past) = 2
        /\ ntf[c].past[1].id = 1
        /\ stream[c] = <<ntf[c].past[2]>>

\* C36: the rooms map has no key in any state; on a server without a
\* database the history of every subscriber is empty, so nothing is
\* replayed to it, whatever was sent to its room before it came.
C36_RoomsNeverWritten ==
    /\ DOMAIN rooms = {}
    /\ ~hasDb =>
          \A c \in Subs :
             /\ ntf[c].past = <<>>
             /\ ntf[c].pc # "replay"
             /\ \A i \in 1..Len(stream[c]) :
                   stream[c][i] \notin ntf[c].earlier

\* Without a database, a message was sent to r1 before a subscriber of r1
\* registered; the subscriber is live and its stream is empty.
C36_Witness ==
    /\ ~hasDb
    /\ \E c \in Subs :
          /\ ntf[c].pc = "live"
          /\ ntf[c].req.room = "r1"
          /\ ntf[c].earlier # {}
          /\ stream[c] = <<>>
    /\ \E p \in Procs : snd[p].pc = "done" /\ snd[p].resp.ok

\* C29: no stream carries one stored message twice: two messages sent on a
\* subscriber's stream that have an Id have different Ids.
C29_NoDuplicateOnStream ==
    \A c \in Subs :
        \A i, j \in 1..Len(stream[c]) :
            (i < j /\ stream[c][i].id # NoId) =>
                stream[c][i].id # stream[c][j].id

\* The Notify of c is running, registered, with neither SinceId nor Since.
Running(c) ==
    /\ ntf[c].pc \in {"query", "replay", "live"}
    /\ ntf[c].req.since_id = NoId
    /\ ntf[c].req.since = NoSince

In(q, id) == \E i \in 1..Len(q) : q[i].id = id

\* The Send that stored the row has still to offer it to the channel of c.
Pending(row, c) ==
    \E p \in Procs :
        /\ snd[p].msg.n = row.n
        /\ \/ snd[p].pc = "snapshot"
           \/ /\ snd[p].pc = "deliver"
              /\ \E i \in 1..Len(snd[p].targets) : snd[p].targets[i] = c

\* C30: while the Notify of a subscriber without SinceId and Since runs,
\* every message stored for its room after the registration of its channel
\* is on its stream, or waits in its channel, or is about to be offered to
\* the channel by the Send that stored it, unless the channel was full when
\* it was offered: the hand-over from history to channel loses nothing.
C30_NothingMissedAtHandOver ==
    \A c \in Subs :
        Running(c) =>
            \A i \in 1..Len(db) :
                (db[i].room = ntf[c].req.room /\ db[i].id > ntf[c].mark) =>
                    \/ In(stream[c], db[i].id)
                    \/ In(chan[c], db[i].id)
                    \/ Pending(db[i], c)
                    \/ <<db[i].n, c>> \in log.dropped

C30_Witness ==
    \E c \in Subs :
        /\ Running(c) /\ ntf[c].pc = "live"
        /\ ntf[c].past # <<>>
        /\ \E i \in 1..Len(db) :
              /\ db[i].room = ntf[c].req.room
              /\ db[i].id > ntf[c].mark
              /\ ~In(ntf[c].past, db[i].id)
              /\ In(stream[c], db[i].id)
              /\ log.dropped = {}

(***************************************************************************)
(* Chat client: Close, Send, Subscribe and its forwarding goroutine        *)
(***************************************************************************)
\* The clients the methods are called on: a nil pointer, &Client{}, a client
\* with only a connection, with only a service stub, and one made by Dial.
Clients ==
    {[nil |-> TRUE, conn |-> FALSE, cc |-> FALSE]}
        \cup [nil : {FALSE}, conn : BOOLEAN, cc : BOOLEAN]

\* A stub that is taken for present whenever the client is not nil.
HasStubIgnoringCc(c) == ~c.nil

\* c == nil || c.cc == nil, negated
HasStub(c) == ~c.nil /\ c.cc

\* c == nil || c.conn == nil, negated
HasConn(c) == ~c.nil /\ c.conn

\* Close, lines 34-39.
ClientClose ==
    /\ cclose.pc = "idle"
    /\ \E err \in IF HasConn(client) THEN {"", "close error"} ELSE {""} :
          cclose' = [pc |-> "returned", err |-> err]
    /\ UNCHANGED <<client, csend, csub, gor, outCh, ctxSub, net>>
    /\ UNCHANGED nonClientVars

\* Send, lines 41-51: the request goes to the stub, whose answer is returned.
ClientSend ==
    /\ csend.pc = "idle"
    /\ IF HasStub(client)
       THEN /\ \E reply \in {[resp |-> "response", err |-> ""],
                             [resp |-> "nil", err |-> "rpc error"]} :
                  csend' = [pc |-> "returned", resp |-> reply.resp,
                            err |-> reply.err]
            /\ net' = [net EXCEPT !.rpcs = @ + 1]
       ELSE /\ csend' = [pc |-> "returned", resp |-> "nil",
                         err |-> "client not connected"]
            /\ UNCHANGED net
    /\ UNCHANGED <<client, cclose, csub, gor, outCh, ctxSub>>
    /\ UNCHANGED nonClientVars

\* Subscribe, lines 59-92: the stream is opened under a cancellable context;
\* when that fails the context is cancelled, otherwise out is made and the
\* forwarding goroutine is started.
Subscribe ==
    /\ csub.pc = "idle"
    /\ IF HasStub(client)
       THEN \/ /\ csub' = [pc |-> "returned", ch |-> "nil", cancel |-> "nil",
                           err |-> "rpc error"]
               /\ ctxSub' = "done"
               /\ net' = [net EXCEPT !.rpcs = @ + 1]
               /\ UNCHANGED <<gor, outCh>>
            \/ /\ csub' = [pc |-> "returned", ch |-> "out",
                           cancel |-> "cancel", err |-> ""]
               /\ ctxSub' = "live"
               /\ outCh' = NewOut
               /\ gor' = [pc |-> "recv", m |-> 0]
               /\ net' = [net EXCEPT !.rpcs = @ + 1, !.started = @ + 1]
       ELSE /\ csub' = [pc |-> "returned", ch |-> "nil", cancel |-> "nil",
                        err |-> "client not connected"]
            /\ UNCHANGED <<gor, outCh, ctxSub, net>>
    /\ UNCHANGED <<client, csend, cclose>>
    /\ UNCHANGED nonClientVars

\* defer close(out)
CloseOut(ch) == [ch EXCEPT !.closed = @ + 1]

\* The stream ends: the server returned from Notify or the connection
\* broke. The goroutine learns of it from its next stream.Recv().
StreamEnds ==
    /\ gor.pc \in {"recv", "send"}
    /\ ~net.ended
    /\ net' = [net EXCEPT !.ended = TRUE]
    /\ UNCHANGED <<client, csend, cclose, csub, gor, outCh, ctxSub>>
    /\ UNCHANGED nonClientVars

\* Goroutine, lines 74-85: stream.Recv() returns a message, or io.EOF or an
\* error once the stream has ended; a cancelled context makes it return an
\* error.
Recv ==
    /\ gor.pc = "recv"
    /\ \/ /\ ctxSub = "live"
          /\ ~net.ended
          /\ net.recvd < MaxRecv
          /\ gor' = [pc |-> "send", m |-> net.recvd + 1]
          /\ net' = [net EXCEPT !.recvd = @ + 1]
          /\ UNCHANGED outCh
       \/ /\ net.ended \/ ctxSub = "done"
          /\ gor' = [pc |-> "done", m |-> 0]
          /\ outCh' = CloseOut(outCh)
          /\ UNCHANGED net
    /\ UNCHANGED <<client, csend, cclose, csub, ctxSub>>
    /\ UNCHANGED nonClientVars

\* Goroutine, lines 86-90: select { case out <- m: case <-ctxSub.Done(): }
Forward ==
    /\ gor.pc = "send"
    /\ \/ /\ Len(outCh.buf) < OutCap
          /\ outCh' = [outCh EXCEPT !.buf = Append(@, gor.m)]
          /\ gor' = [pc |-> "recv", m |-> 0]
       \/ /\ ctxSub = "done"
          /\ gor' = [pc |-> "done", m |-> 0]
          /\ outCh' = CloseOut(outCh)
    /\ UNCHANGED <<client, csend, cclose, csub, ctxSub, net>>
    /\ UNCHANGED nonClientVars

\* The caller reads one message from the channel Subscribe returned.
Consume ==
    /\ csub.pc = "returned"
    /\ csub.ch = "out"
    /\ outCh.buf # <<>>
    /\ outCh' = [outCh EXCEPT !.buf = Tail(@)]
    /\ net' = [net EXCEPT !.taken = @ + 1]
    /\ UNCHANGED <<client, csend, cclose, csub, gor, ctxSub>>
    /\ UNCHANGED nonClientVars

\* The caller calls the cancel function Subscribe returned.
Cancel ==
    /\ csub.pc = "returned"
    /\ csub.cancel = "cancel"
    /\ ctxSub = "live"
    /\ ctxSub' = "done"
    /\ UNCHANGED <<client, csend, cclose, csub, gor, outCh, net>>
    /\ UNCHANGED nonClientVars

InitClient ==
    /\ client \in Clients
    /\ csend = NotCalled
    /\ cclose = NotCalled
    /\ csub = NotCalled
    /\ gor = NoGoroutine
    /\ outCh = NewOut
    /\ ctxSub = "none"
    /\ net = NoTraffic
    /\ LexIdle
    /\ ExecIdle
    /\ ChatIdle
    /\ ParseIdle
    /\ ExpandIdle
    /\ TuiIdle

NextClient ==
    \/ ClientClose
    \/ ClientSend
    \/ Subscribe
    \/ Recv
    \/ Forward
    \/ Consume
    \/ Cancel
    \/ StreamEnds

SpecClient == InitClient /\ [][NextClient]_vars

\* The goroutine is scheduled as long as it can take a step; the caller is
\* free to stop reading and never to cancel.
SpecClientFair == SpecClient /\ WF_vars(Recv) /\ WF_vars(Forward)

(***************************************************************************)
(* Properties of the chat client                                           *)
(***************************************************************************)
\* C15: on a client that is nil or has no service stub, Send returns a nil
\* response and an error, Subscribe returns a nil channel, a nil cancel
\* function and an error, no goroutine is started and no RPC is issued; on
\* a client that is nil or has no connection, Close returns nil.
C15_UnconnectedClient ==
    LET nostub == client.nil \/ ~client.cc
        noconn == client.nil \/ ~client.conn
    IN /\ (nostub /\ csend.pc = "returned") =>
              csend.resp = "nil" /\ csend.err # ""
       /\ (nostub /\ csub.pc = "returned") =>
              csub.ch = "nil" /\ csub.cancel = "nil" /\ csub.err # ""
       /\ nostub =>
              /\ net.started = 0
              /\ net.rpcs = 0
              /\ gor.pc = "none"
              /\ ctxSub = "none"
       /\ (noconn /\ cclose.pc = "returned") => cclose.err = ""

\* All three methods have returned on a client without stub and connection.
C15_Witness ==
    /\ ~client.nil
    /\ ~client.cc
    /\ ~client.conn
    /\ csend.pc = "returned"
    /\ csub.pc = "returned"
    /\ cclose.pc = "returned"

\* The goroutine of Subscribe is running.
Forwarding == gor.pc \in {"recv", "send"}

\* The goroutine has returned and its deferred close(out) has run once.
Closed == gor.pc = "done" /\ outCh.closed = 1

\* out is closed at most once, nothing is put into it once it is closed, and
\* it holds the messages in the order the stream gave them.
C37_ClosedOnceInOrder ==
    /\ [](/\ outCh.closed <= 1
          /\ \A i \in 1..Len(outCh.buf) : outCh.buf[i] = net.taken + i)
    /\ [][outCh.closed = 1 =>
             /\ outCh'.closed = 1
             /\ \/ outCh'.buf = outCh.buf
                \/ /\ outCh.buf # <<>>
                   /\ outCh'.buf = Tail(outCh.buf)]_vars

\* Once cancel was called the goroutine returns and closes out.
C37_CancelEndsForwarding == (Forwarding /\ ctxSub = "done") ~> Closed

\* The goroutine was cancelled while it waited with a message for room in
\* the full buffer, and has closed out.
C37_CancelWitness ==
    /\ Closed
    /\ ctxSub = "done"
    /\ Len(outCh.buf) = OutCap
    /\ net.recvd = OutCap + 1
    /\ net.taken = 0

\* C37: after cancel was called or the stream has ended the goroutine
\* returns and closes out, exactly once, whether or not the caller reads
\* and also when the buffer is full; nothing is sent on out after the
\* close and out carries the messages in the order of the stream.
C37_ForwarderTerminates ==
    /\ C37_ClosedOnceInOrder
    /\ C37_CancelEndsForwarding
    /\ (Forwarding /\ net.ended) ~> Closed

(***************************************************************************)
(* Recursive parser: construct_ast(tokens)                                 *)
(***************************************************************************)
PipeOp == OpToken("|")

Equal == OpToken("=")

Slash == OpToken("/")

RedirectLeft == OpToken("<")

RedirectRight == OpToken(">")

\* Word::Literal for a single literal part, Word::Compound otherwise.
\* Every word built as a Compound word.
AstWordAlwaysCompound(ps) == [word |-> "Compound", parts |-> ps]

AstWord(ps) ==
    [word |-> IF Len(ps) = 1 /\ ps[1].kind = "Literal" THEN "Literal"
              ELSE "Compound",
     parts |-> ps]

NoValue == AstWord(<<>>)

Redirect(kind, target) == [kind |-> kind, target |-> target]

ParseError == [status |-> "ParseError", ast |-> NoAst]

\* The type of the token at index i, End outside the sequence.
TokenType(ts, i) == IF i \in 1..Len(ts) THEN ts[i].type ELSE "End"

IsIdentifier(text) ==
    /\ text # <<>>
    /\ IsIdentStart(text[1])
    /\ \A i \in 2..Len(text) : IsIdentChar(text[i])

\* The shape name '=' : a Word of one literal identifier, then Equal.
AssignmentShape(ts, i) ==
    /\ TokenType(ts, i) = "Word"
    /\ Len(ts[i].parts) = 1
    /\ ts[i].parts[1].kind = "Literal"
    /\ IsIdentifier(ts[i].parts[1].text)
    /\ TokenType(ts, i + 1) = "Equal"

\* Assignment rules that accept the shape at any place of the command.
IsAssignmentAnywhere(ts, i, c) == AssignmentShape(ts, i)

\* Check assignment rules: the shape, before any argument word of the
\* command has been accepted.
IsAssignment(ts, i, c) == AssignmentShape(ts, i) /\ c.argv = <<>>

\* The parts a token brings into a word.
PartsOf(t) ==
    CASE t.type = "Word" -> t.parts
      [] t.type = "Slash" -> <<Literal(<<"/">>)>>
      [] t.type = "Equal" -> <<Literal(<<"=">>)>>

\* Collect WordParts: index after the last token of the word that starts at
\* i. Slash and Equal tokens join what surrounds them; a Word token after a
\* Word token starts the next word.
RECURSIVE WordEnd(_, _)
WordEnd(ts, i) ==
    LET here == TokenType(ts, i)
        next == TokenType(ts, i + 1)
    IN IF next \in {"Slash", "Equal"} \/ (next = "Word" /\ here # "Word")
       THEN WordEnd(ts, i + 1)
       ELSE i + 1

RECURSIVE CollectParts(_, _, _)
CollectParts(ts, i, e) ==
    IF i >= e THEN <<>> ELSE PartsOf(ts[i]) \o CollectParts(ts, i + 1, e)

\* A command list that grows at the front.
PushCommandFront(cs, c) == <<c>> \o cs

\* parse_pipeline: the command just parsed joins the commands.
PushCommand(cs, c) == Append(cs, c)

\* A pipeline node whatever the number of commands.
AlwaysPipeline(cs) == [node |-> "Pipeline", cmds |-> cs]

\* commands.len == 1 ? Command node : Pipeline(commands)
ReturnNode(cs) ==
    [node |-> IF Len(cs) = 1 THEN "Command" ELSE "Pipeline", cmds |-> cs]

\* An end-of-stream check that accepts leftover tokens.
EndOfStreamUnchecked(ts, i, node) == [status |-> "ok", ast |-> node]

\* Check end-of-stream: an unconsumed token is an error.
EndOfStream(ts, i, node) ==
    IF i > Len(ts) THEN [status |-> "ok", ast |-> node] ELSE ParseError

\* parse_command, Word that is a valid assignment: parse_assignment().
ParseAssignment ==
    /\ ppc = "parse_command"
    /\ IsAssignment(toks, tpos, command)
    /\ LET name == toks[tpos].parts[1].text
           valued == TokenType(toks, tpos + 2) = "Word"
           value == IF valued THEN AstWord(toks[tpos + 2].parts) ELSE NoValue
       IN /\ command' = [command EXCEPT
                           !.assignments = Append(@, Assignment(name, value))]
          /\ tpos' = IF valued THEN tpos + 3 ELSE tpos + 2
    /\ UNCHANGED <<toks, ppc, commands, presult>>
    /\ UNCHANGED nonParseVars

\* parse_command, Word that is no assignment, or Slash:
\* parse_word_or_path_with_equal().
ParseWordOrPath ==
    /\ ppc = "parse_command"
    /\ TokenType(toks, tpos) \in {"Word", "Slash"}
    /\ ~IsAssignment(toks, tpos, command)
    /\ LET e == WordEnd(toks, tpos)
       IN /\ command' = [command EXCEPT
                           !.argv = Append(@, AstWord(CollectParts(toks, tpos, e)))]
          /\ tpos' = e
    /\ UNCHANGED <<toks, ppc, commands, presult>>
    /\ UNCHANGED nonParseVars

\* A redirection whose missing target is taken for an empty word.
\* parse_redirect that takes every `>` for an Output redirection of its own.
ParseRedirectNoAppend ==
    /\ ppc = "parse_command"
    /\ TokenType(toks, tpos) \in {"RedirectLeft", "RedirectRight"}
    /\ LET kind == IF TokenType(toks, tpos) = "RedirectLeft" THEN "Input"
                   ELSE "Output"
           t == tpos + 1
       IN IF TokenType(toks, t) = "Word"
          THEN /\ command' = [command EXCEPT
                                !.redirects =
                                    Append(@, Redirect(kind, AstWord(toks[t].parts)))]
               /\ tpos' = t + 1
               /\ UNCHANGED <<ppc, presult>>
          ELSE /\ presult' = ParseError
               /\ ppc' = "returned"
               /\ tpos' = t
               /\ UNCHANGED command
    /\ UNCHANGED <<toks, commands>>
    /\ UNCHANGED nonParseVars

ParseRedirectLenient ==
    /\ ppc = "parse_command"
    /\ TokenType(toks, tpos) \in {"RedirectLeft", "RedirectRight"}
    /\ LET append == /\ TokenType(toks, tpos) = "RedirectRight"
                     /\ TokenType(toks, tpos + 1) = "RedirectRight"
           kind == IF TokenType(toks, tpos) = "RedirectLeft" THEN "Input"
                   ELSE IF append THEN "Append" ELSE "Output"
           t == IF append THEN tpos + 2 ELSE tpos + 1
       IN IF TokenType(toks, t) = "Word"
          THEN /\ command' = [command EXCEPT
                                !.redirects =
                                    Append(@, Redirect(kind, AstWord(toks[t].parts)))]
               /\ tpos' = t + 1
          ELSE /\ command' = [command EXCEPT
                                !.redirects = Append(@, Redirect(kind, NoValue))]
               /\ tpos' = t
    /\ UNCHANGED <<toks, ppc, commands, presult>>
    /\ UNCHANGED nonParseVars

\* parse_command, Redirect: parse_redirect(); two RedirectRight tokens in a
\* row are the Append operator; the target is the Word that follows, and
\* its absence is a ParseError.
ParseRedirect ==
    /\ ppc = "parse_command"
    /\ TokenType(toks, tpos) \in {"RedirectLeft", "RedirectRight"}
    /\ LET append == /\ TokenType(toks, tpos) = "RedirectRight"
                     /\ TokenType(toks, tpos + 1) = "RedirectRight"
           kind == IF TokenType(toks, tpos) = "RedirectLeft" THEN "Input"
                   ELSE IF append THEN "Append" ELSE "Output"
           t == IF append THEN tpos + 2 ELSE tpos + 1
       IN IF TokenType(toks, t) = "Word"
          THEN /\ command' = [command EXCEPT
                                !.redirects =
                                    Append(@, Redirect(kind, AstWord(toks[t].parts)))]
               /\ tpos' = t + 1
               /\ UNCHANGED <<ppc, presult>>
          ELSE /\ presult' = ParseError
               /\ ppc' = "returned"
               /\ tpos' = t
               /\ UNCHANGED command
    /\ UNCHANGED <<toks, commands>>
    /\ UNCHANGED nonParseVars

\* parse_command, Pipe / End (and any token no branch takes): Stop command.
\* A pipe operator in front of the first command of the line is a
\* ParseError.
StopCommand ==
    /\ ppc = "parse_command"
    /\ TokenType(toks, tpos) \notin
           {"Word", "Slash", "RedirectLeft", "RedirectRight"}
    /\ IF TokenType(toks, tpos) = "PipeOp" /\ tpos = 1
       THEN /\ presult' = ParseError
            /\ ppc' = "returned"
            /\ UNCHANGED commands
       ELSE /\ commands' = PushCommand(commands, command)
            /\ ppc' = "parse_pipeline"
            /\ UNCHANGED presult
    /\ UNCHANGED <<toks, tpos, command>>
    /\ UNCHANGED nonParseVars

\* parse_pipeline, Next token == '|' : yes, parse_command() again.
NextCommand ==
    /\ ppc = "parse_pipeline"
    /\ TokenType(toks, tpos) = "PipeOp"
    /\ tpos' = tpos + 1
    /\ command' = EmptyCommand
    /\ ppc' = "parse_command"
    /\ UNCHANGED <<toks, commands, presult>>
    /\ UNCHANGED nonParseVars

\* parse_pipeline, Next token == '|' : no, the node is returned and the end
\* of the stream is checked.
ReturnAst ==
    /\ ppc = "parse_pipeline"
    /\ TokenType(toks, tpos) # "PipeOp"
    /\ presult' = EndOfStream(toks, tpos, ReturnNode(commands))
    /\ ppc' = "returned"
    /\ UNCHANGED <<toks, tpos, command, commands>>
    /\ UNCHANGED nonParseVars

ParserWords == {Word(<<Literal(<<"a">>)>>), Word(<<Literal(<<"1">>)>>)}

ParserTokens ==
    ParserWords \cup {PipeOp, Equal, Slash, RedirectLeft, RedirectRight}

LitWord(text) == Word(<<Literal(text)>>)

\* cat file | grep foo | wc -l
TokensCatGrepWc ==
    <<LitWord(<<"c","a","t">>), LitWord(<<"f","i","l","e">>), PipeOp,
      LitWord(<<"g","r","e","p">>), LitWord(<<"f","o","o">>), PipeOp,
      LitWord(<<"w","c">>), LitWord(<<"-","l">>)>>

ParserInputs ==
    SeqsUpTo(ParserTokens, MaxToks)
        \cup SeqsUpTo(ParserWords \cup {PipeOp}, MaxPipeToks)
        \cup {TokensCatGrepWc}

InitParse ==
    /\ toks \in ParserInputs
    /\ tpos = 1
    /\ ppc = "parse_command"
    /\ command = EmptyCommand
    /\ commands = <<>>
    /\ presult = NoResult
    /\ LexIdle
    /\ ExecIdle
    /\ ChatIdle
    /\ ClientIdle
    /\ ExpandIdle
    /\ TuiIdle

NextParse ==
    \/ ParseAssignment
    \/ ParseWordOrPath
    \/ ParseRedirect
    \/ StopCommand
    \/ NextCommand
    \/ ReturnAst

SpecParse == InitParse /\ [][NextParse]_vars

(***************************************************************************)
(* Properties of the parser                                                *)
(***************************************************************************)
Parsed == ppc = "returned" /\ presult.status = "ok"

PipeCount(ts) == Cardinality({i \in 1..Len(ts) : ts[i].type = "PipeOp"})

\* The token sequences between the pipe operators, left to right.
RECURSIVE Segments(_)
Segments(ts) ==
    IF \A i \in 1..Len(ts) : ts[i].type # "PipeOp" THEN <<ts>>
    ELSE LET k == CHOOSE i \in 1..Len(ts) :
                      /\ ts[i].type = "PipeOp"
                      /\ \A j \in 1..(i - 1) : ts[j].type # "PipeOp"
         IN <<SubSeq(ts, 1, k - 1)>> \o Segments(SubSeq(ts, k + 1, Len(ts)))

\* N >= 2 commands, each a non-empty run of Word tokens.
WordCommands(ts) ==
    /\ PipeCount(ts) >= 1
    /\ \A i \in 1..Len(ts) : ts[i].type \in {"Word", "PipeOp"}
    /\ \A k \in 1..Len(Segments(ts)) : Segments(ts)[k] # <<>>

\* C16: the tokens of N >= 2 commands separated by N-1 pipe operators parse
\* to a Pipeline node of exactly N Command nodes, the k-th one built from
\* the k-th command of the line; cat file | grep foo | wc -l gives 3.
C16_PipelineOfN ==
    /\ (Parsed /\ PipeCount(toks) >= 1) =>
           /\ presult.ast.node = "Pipeline"
           /\ Len(presult.ast.cmds) = PipeCount(toks) + 1
    /\ (ppc = "returned" /\ WordCommands(toks)) =>
           /\ presult.status = "ok"
           /\ Len(presult.ast.cmds) = Len(Segments(toks))
           /\ \A k \in 1..Len(Segments(toks)) :
                  LET seg == Segments(toks)[k]
                  IN presult.ast.cmds[k] =
                         [EmptyCommand EXCEPT
                            !.argv = [i \in 1..Len(seg) |-> AstWord(seg[i].parts)]]
    /\ (ppc = "returned" /\ toks = TokensCatGrepWc) =>
           /\ presult.ast.node = "Pipeline"
           /\ Len(presult.ast.cmds) = 3

\* cat file | grep foo | wc -l has been parsed.
C16_Witness == Parsed /\ toks = TokensCatGrepWc

\* C17: a returned Pipeline node has at least two commands, never zero, and
\* a line of one command (no pipe operator) gives a bare Command node.
C17_NoEmptyPipeline ==
    Parsed =>
        /\ presult.ast.node \in {"Command", "Pipeline"}
        /\ presult.ast.node = "Pipeline" => Len(presult.ast.cmds) >= 2
        /\ presult.ast.node = "Command" => Len(presult.ast.cmds) = 1
        /\ PipeCount(toks) = 0 => presult.ast.node = "Command"

\* A line of one command with two argument words has been parsed.
C17_Witness ==
    /\ Parsed
    /\ presult.ast.node = "Command"
    /\ Len(presult.ast.cmds[1].argv) = 2

IsRedirectOp(ts, i) == TokenType(ts, i) \in {"RedirectLeft", "RedirectRight"}

\* A redirection operator that no Word follows; the first '>' of '>>' is
\* followed by the second one and does not count.
MissingTarget(ts) ==
    \E i \in 1..Len(ts) :
        /\ IsRedirectOp(ts, i)
        /\ TokenType(ts, i + 1) # "Word"
        /\ ~ /\ TokenType(ts, i) = "RedirectRight"
             /\ TokenType(ts, i + 1) = "RedirectRight"
             /\ TokenType(ts, i - 1) # "RedirectRight"

C19_AllTokensConsumed ==
    ppc = "returned" =>
        /\ presult.status \in {"ok", "ParseError"}
        /\ presult.status = "ok" =>
               tpos = Len(toks) + 1 /\ presult.ast # NoAst
        /\ presult.status = "ParseError" => presult.ast = NoAst

\* parse_pipeline returned with a token left and parse ended in an error.
C19_Witness ==
    /\ ppc = "returned"
    /\ presult = ParseError
    /\ commands # <<>>
    /\ tpos <= Len(toks)

\* C20: once the command has an argument word, no step adds an assignment
\* to it, and a name '=' value token sequence becomes one more argument
\* word that starts with the name, '=' and the value.
C20_AssignmentsOnlyAsPrefix ==
    [][(ppc = "parse_command" /\ command.argv # <<>>) =>
          /\ command'.assignments = command.assignments
          /\ (AssignmentShape(toks, tpos) /\ TokenType(toks, tpos + 2) = "Word") =>
                 /\ Len(command'.argv) = Len(command.argv) + 1
                 /\ tpos' >= tpos + 3
                 /\ SubSeq(command'.argv[Len(command'.argv)].parts, 1,
                           Len(toks[tpos].parts) + 1) =
                        toks[tpos].parts \o <<Literal(<<"=">>)>>]_vars

\* A line word name=value was parsed into two argument words and no
\* assignment.
C20_Witness ==
    /\ Parsed
    /\ Len(toks) = 4
    /\ AssignmentShape(toks, 2)
    /\ TokenType(toks, 4) = "Word"
    /\ presult.ast.cmds[1].assignments = <<>>
    /\ Len(presult.ast.cmds[1].argv) = 2


(***************************************************************************)
(* CommandBuilder: tokenize the line, then construct_ast(tokens)           *)
(***************************************************************************)
\* a>1, a>>1, a > 1, a >> 1, and the same with the target a.
RedirectLines ==
    {((<<"a">> \o sp) \o op) \o (sp \o <<f>>) :
        sp \in {<<>>, <<" ">>},
        op \in {<<">">>, <<">", ">">>},
        f \in {"a", "1"}}

BuildInputs == SeqsUpTo(LexAlphabet, MaxLen) \cup RedirectLines

\* The tokens of a line that lexed are given to the parser; a line that
\* ended in LexError is not parsed.
ConstructAst ==
    /\ out.status = "ok" /\ ppc = "construct_ast"
    /\ toks' = out.tokens
    /\ ppc' = "parse_command"
    /\ UNCHANGED <<tpos, command, commands, presult>>
    /\ UNCHANGED nonParseVars

InitBuild ==
    /\ input \in BuildInputs
    /\ pos = 1
    /\ state = "Start"
    /\ depth = 0
    /\ buf = <<>>
    /\ parts = <<>>
    /\ tokens = <<>>
    /\ out = [status |-> "running", tokens |-> <<>>]
    /\ ExecIdle
    /\ ChatIdle
    /\ ParseIdle
    /\ ClientIdle
    /\ ExpandIdle
    /\ TuiIdle

NextBuild ==
    \/ StartStep
    \/ ReadingWordStep
    \/ ReadingSingleQuoteStep
    \/ ReadingDoubleQuoteStep
    \/ ReadingCmdSubstStep
    \/ ReadingParamSubstStep
    \/ EndOfInput
    \/ ConstructAst
    \/ ParseAssignment
    \/ ParseWordOrPath
    \/ ParseRedirect
    \/ StopCommand
    \/ NextCommand
    \/ ReturnAst

SpecBuild == InitBuild /\ [][NextBuild]_vars

(***************************************************************************)
(* Properties of the CommandBuilder                                        *)
(***************************************************************************)
\* The AST of a line that is one command with the given words and
\* redirections.
OneCommand(argv, redirects) ==
    [status |-> "ok",
     ast |-> [node |-> "Command",
              cmds |-> <<[argv |-> argv, assignments |-> <<>>,
                          redirects |-> redirects]>>]]

LiteralWord(text) == [word |-> "Literal", parts |-> <<Literal(text)>>]

\* C26: `a >> f` is parsed into the command a with exactly one Redirect, of
\* kind Append, and `a > f` into the command a with exactly one Redirect,
\* of kind Output; neither ends in a parse error.
C26_OneRedirectNode ==
    (input \in RedirectLines /\ ppc = "returned") =>
        presult =
            OneCommand(<<LiteralWord(<<"a">>)>>,
                       <<[kind |-> IF CountOf(input, ">") = 2 THEN "Append"
                                   ELSE "Output",
                          target |-> LiteralWord(<<input[Len(input)]>>)]>>)

C26_Witness ==
    /\ input = <<"a", " ", ">", ">", " ", "1">>
    /\ ppc = "returned"
    /\ Len(presult.ast.cmds[1].redirects) = 1
    /\ presult.ast.cmds[1].redirects[1].kind = "Append"

Metacharacters == {" ", "\t", SQ, DQ, "$", "|", "=", "/", "<", ">"}

IsPlainText(line) ==
    line # <<>> /\ \A i \in 1..Len(line) : line[i] \notin Metacharacters

\* C27: a text without metacharacters lexes to one Word holding the single
\* Literal part equal to the text, and parses to one command whose only
\* argument is that single-Literal word.
C27_PlainWordRoundTrip ==
    IsPlainText(input) =>
        /\ Finished =>
              out = [status |-> "ok", tokens |-> <<Word(<<Literal(input)>>)>>]
        /\ ppc = "returned" =>
              presult = OneCommand(<<LiteralWord(input)>>, <<>>)

C27_Witness ==
    /\ input = <<"a", "1", "a">>
    /\ ppc = "returned"
    /\ presult.status = "ok"
    /\ presult.ast.cmds[1].argv[1].parts = <<Literal(<<"a", "1", "a">>)>>

(***************************************************************************)
(* Expander: expand(word, env)                                             *)
(***************************************************************************)
Newline == "\n"

\* What a command substitution may capture from its command.
CapturedOutputs == SeqsUpTo({"x", Newline}, MaxOut)

\* The parts of the expanded words: literal text, the parameters A and B,
\* one command substitution.
ExpandParts ==
    {Literal(<<"a">>), ParamSubst(<<"A">>), ParamSubst(<<"B">>),
     CmdSubst(<<"c">>)}

ExpandWords == SeqsUpTo(ExpandParts, MaxParts) \ {<<>>}

\* The characters of a value of the store.
ValueText(v) ==
    IF v = "21" THEN <<"2", "1">> ELSE IF v = "7" THEN <<"7">> ELSE <<>>

\* get(name) on the environment view.
Lookup(view, t) ==
    IF Len(t) = 1 /\ t[1] \in DOMAIN view THEN view[t[1]] ELSE Unset

\* An unset parameter left in the text as it was written.
ParamTextKeepsName(view, t) ==
    IF Lookup(view, t) = Unset THEN <<"$">> \o t
    ELSE ValueText(Lookup(view, t))

\* ParameterSubstitution: the value of the name, or the empty string.
ParamText(view, t) ==
    IF Lookup(view, t) = Unset THEN <<>> ELSE ValueText(Lookup(view, t))

\* Every trailing newline removed, as shells conventionally do.
RECURSIVE StripAllNewlines(_)
StripAllNewlines(o) ==
    IF o # <<>> /\ o[Len(o)] = Newline
    THEN StripAllNewlines(SubSeq(o, 1, Len(o) - 1))
    ELSE o

\* One trailing newline removed if there is one.
StripNewline(o) ==
    IF o # <<>> /\ o[Len(o)] = Newline THEN SubSeq(o, 1, Len(o) - 1) ELSE o

\* The part rendered next.
epart == eword[epos + 1]

Render(t) ==
    /\ etext' = etext \o t
    /\ elast' = t
    /\ epos' = epos + 1
    /\ UNCHANGED <<eword, eview, estat>>

\* Literal renders verbatim.
RenderLiteral ==
    /\ estat = "expanding" /\ epos < Len(eword)
    /\ epart.kind = "Literal"
    /\ Render(epart.text)
    /\ ecap' = NoCapture
    /\ UNCHANGED nonExpandVars

\* ParameterSubstitution looks the name up in the environment view.
RenderParam ==
    /\ estat = "expanding" /\ epos < Len(eword)
    /\ epart.kind = "ParamSubst"
    /\ Render(ParamText(eview, epart.text))
    /\ ecap' = NoCapture
    /\ UNCHANGED nonExpandVars

\* CommandSubstitution runs the inner text and renders what it captured;
\* only a command that cannot be spawned fails the expansion.
RenderCmdSubst ==
    /\ estat = "expanding" /\ epos < Len(eword)
    /\ epart.kind = "CmdSubst"
    /\ \/ \E o \in CapturedOutputs :
             /\ Render(StripNewline(o))
             /\ ecap' = [ran |-> TRUE, spawned |-> TRUE, out |-> o]
       \/ /\ estat' = "ExpansionError"
          /\ elast' = <<>>
          /\ ecap' = [ran |-> TRUE, spawned |-> FALSE, out |-> <<>>]
          /\ UNCHANGED <<eword, eview, epos, etext>>
    /\ UNCHANGED nonExpandVars

\* Every part is rendered: expand returns the text.
ExpandReturn ==
    /\ estat = "expanding" /\ epos = Len(eword)
    /\ estat' = "ok"
    /\ UNCHANGED <<eword, eview, epos, etext, elast, ecap>>
    /\ UNCHANGED nonExpandVars

InitExpand ==
    /\ eword \in ExpandWords
    /\ eview \in [Names -> Values \cup {Unset}]
    /\ epos = 0
    /\ etext = <<>>
    /\ elast = <<>>
    /\ ecap = NoCapture
    /\ estat = "expanding"
    /\ LexIdle
    /\ ExecIdle
    /\ ChatIdle
    /\ ParseIdle
    /\ ClientIdle
    /\ TuiIdle

NextExpand ==
    \/ RenderLiteral
    \/ RenderParam
    \/ RenderCmdSubst
    \/ ExpandReturn

SpecExpand == InitExpand /\ [][NextExpand]_vars

(***************************************************************************)
(* Properties of the expander                                              *)
(***************************************************************************)
\* The part at epos has been rendered into elast.
Rendered(kind) ==
    /\ estat # "ExpansionError"
    /\ epos > 0
    /\ eword[epos].kind = kind

\* C24: a parameter substitution whose name is not set renders the empty
\* string and the expansion goes on; expand fails only at a command
\* substitution whose command could not be spawned.
C24_UnsetParameterIsEmpty ==
    /\ (Rendered("ParamSubst") /\ eview[eword[epos].text[1]] = Unset) =>
          /\ elast = <<>>
          /\ estat \in {"expanding", "ok"}
    /\ estat = "ExpansionError" =>
          /\ eword[epos + 1].kind = "CmdSubst"
          /\ ecap.ran /\ ~ecap.spawned
    /\ estat = "ok" => epos = Len(eword)

C24_Witness ==
    /\ estat = "ok"
    /\ eword = <<Literal(<<"a">>), ParamSubst(<<"A">>)>>
    /\ eview["A"] = Unset
    /\ etext = <<"a">>

\* C25: a command substitution renders the captured output without its last
\* newline when it ends in one, and unchanged otherwise.
C25_OneTrailingNewlineStripped ==
    (Rendered("CmdSubst") /\ ecap.spawned) =>
        IF ecap.out # <<>> /\ ecap.out[Len(ecap.out)] = Newline
        THEN ecap.out = elast \o <<Newline>>
        ELSE ecap.out = elast

C25_Witness ==
    /\ Rendered("CmdSubst")
    /\ ecap.out = <<"x", Newline, Newline>>
    /\ elast = <<"x", Newline>>

(***************************************************************************)
(* Chat TUI: model.Update                                                  *)
(***************************************************************************)
\* The characters typed into the input line.
TuiKeys == {" ", "a"}

\* What an incomingMsg carries: nil or a message with sender and text.
Payloads == {Nil, [sender |-> <<"b">>, text |-> <<"a">>]}

\* The models Update runs on: New(), and NewWithSender(room, user, send)
\* with a send function or a nil one.
Models == {NewModel} \cup [room : {"r1"}, user : {"bob"}, send : BOOLEAN]

\* strings.TrimSpace
RECURSIVE TrimLeft(_)
TrimLeft(t) == IF t # <<>> /\ Head(t) = " " THEN TrimLeft(Tail(t)) ELSE t

RECURSIVE TrimRight(_)
TrimRight(t) ==
    IF t # <<>> /\ t[Len(t)] = " " THEN TrimRight(SubSeq(t, 1, Len(t) - 1))
    ELSE t

TrimSpace(t) == TrimRight(TrimLeft(t))

\* fmt.Sprintf("%s: %s", sender, text)
Format(sender, text) == sender \o <<":", " ">> \o text

\* Update has one more message to handle, and has not asked to quit.
Handles(kind, arg) ==
    /\ tlast.n < MaxEvents
    /\ tlast.kind # "quit"
    /\ tlast' = [n |-> tlast.n + 1, kind |-> kind, arg |-> arg]

\* An Enter that showed the text at once, with or without a send function.
KeyEnterEchoes ==
    /\ Handles("enter", "none")
    /\ LET val == TrimSpace(tinput)
       IN IF val # <<>>
          THEN /\ tmessages' = Append(tmessages, val)
               /\ tgo' = IF tconf.send
                         THEN tgo \cup {[n |-> tlast.n + 1, text |-> val]}
                         ELSE tgo
               /\ tinput' = <<>>
          ELSE UNCHANGED <<tinput, tmessages, tgo>>
    /\ UNCHANGED <<tconf, tsent>>
    /\ UNCHANGED nonTuiVars

\* Update, lines 94-106: Enter. A non-blank input is handed to a goroutine
\* that will call m.send, or appended when there is no send function, and
\* the input is cleared.
KeyEnter ==
    /\ Handles("enter", "none")
    /\ LET val == TrimSpace(tinput)
       IN IF val # <<>>
          THEN /\ IF tconf.send
                  THEN /\ tgo' = tgo \cup {[n |-> tlast.n + 1, text |-> val]}
                       /\ UNCHANGED tmessages
                  ELSE /\ tmessages' = Append(tmessages, val)
                       /\ UNCHANGED tgo
               /\ tinput' = <<>>
          ELSE UNCHANGED <<tinput, tmessages, tgo>>
    /\ UNCHANGED <<tconf, tsent>>
    /\ UNCHANGED nonTuiVars

\* Update, lines 92-93: ctrl+c or esc returns tea.Quit.
KeyQuit ==
    /\ Handles("quit", "none")
    /\ UNCHANGED <<tinput, tmessages, tconf, tgo, tsent>>
    /\ UNCHANGED nonTuiVars

\* Update, lines 115-117: any other key goes to the text input, which puts
\* the character at the end of the line.
KeyChar(ch) ==
    /\ Handles("key", ch)
    /\ Len(tinput) < MaxInput
    /\ tinput' = Append(tinput, ch)
    /\ UNCHANGED <<tmessages, tconf, tgo, tsent>>
    /\ UNCHANGED nonTuiVars

\* Update, lines 108-112: an incoming message is appended as "sender: text"
\* unless its payload is nil.
Incoming(payload) ==
    /\ Handles("incoming", payload)
    /\ tmessages' = IF payload # Nil
                    THEN Append(tmessages,
                                Format(payload.sender, payload.text))
                    ELSE tmessages
    /\ UNCHANGED <<tinput, tconf, tgo, tsent>>
    /\ UNCHANGED nonTuiVars

\* Update, lines 98-100: the goroutine calls m.send(m.room, m.user, text).
SendRun(g) ==
    /\ g \in tgo
    /\ tgo' = tgo \ {g}
    /\ tsent' = Append(tsent, [room |-> tconf.room, user |-> tconf.user,
                               text |-> g.text])
    /\ UNCHANGED <<tinput, tmessages, tconf, tlast>>
    /\ UNCHANGED nonTuiVars

InitTui ==
    /\ tinput = <<>>
    /\ tmessages = <<>>
    /\ tconf \in Models
    /\ tgo = {}
    /\ tsent = <<>>
    /\ tlast = NoEvent
    /\ LexIdle
    /\ ExecIdle
    /\ ChatIdle
    /\ ParseIdle
    /\ ClientIdle
    /\ ExpandIdle

NextTui ==
    \/ KeyEnter
    \/ KeyQuit
    \/ \E ch \in TuiKeys : KeyChar(ch)
    \/ \E payload \in Payloads : Incoming(payload)
    \/ \E g \in tgo : SendRun(g)

SpecTui == InitTui /\ [][NextTui]_vars

(***************************************************************************)
(* Properties of the chat TUI                                              *)
(***************************************************************************)
\* The text has no character but spaces.
Blank(t) == \A i \in 1..Len(t) : t[i] = " "

\* The text without its leading and trailing spaces.
Trimmed(t) ==
    LET inner == {i \in 1..Len(t) : t[i] # " "}
        first == CHOOSE i \in inner : \A j \in inner : i <= j
        final == CHOOSE i \in inner : \A j \in inner : j <= i
    IN IF inner = {} THEN <<>> ELSE SubSeq(t, first, final)

\* C38: Enter on a blank input changes neither the list nor the input.
\* Enter on any other input clears it; with a send function the trimmed
\* text goes to m.send with the room and user of the model and the list is
\* unchanged, without one the text is appended to the list. An incoming
\* message with a nil payload leaves the list unchanged.
C38_EnterAndIncoming ==
    /\ [][(tlast'.n # tlast.n /\ tlast'.kind = "enter") =>
            IF Blank(tinput)
            THEN UNCHANGED <<tinput, tmessages, tgo, tsent>>
            ELSE /\ tinput' = <<>>
                 /\ IF tconf.send
                    THEN /\ tmessages' = tmessages
                         /\ tgo' = tgo \cup {[n |-> tlast'.n,
                                              text |-> Trimmed(tinput)]}
                    ELSE /\ tmessages' = Append(tmessages, Trimmed(tinput))
                         /\ tgo' = tgo]_vars
    /\ [][(tlast'.n # tlast.n /\ tlast'.kind = "incoming"
             /\ tlast'.arg = Nil) => tmessages' = tmessages]_vars
    /\ [][tsent' # tsent =>
            \E g \in tgo :
               /\ tgo' = tgo \ {g}
               /\ tsent' = Append(tsent, [room |-> tconf.room,
                                          user |-> tconf.user,
                                          text |-> g.text])]_vars
    /\ [](tconf.send \/ (tgo = {} /\ tsent = <<>>))

\* With a send function: a text was entered and sent as "a", the list got
\* nothing from it, and a nil payload came in afterwards.
C38_Witness ==
    /\ tconf.send
    /\ tsent = <<[room |-> "r1", user |-> "bob", text |-> <<"a">>]>>
    /\ tmessages = <<>>
    /\ tinput = <<>>
    /\ tlast = [n |-> 4, kind |-> "incoming", arg |-> Nil]

====
